---- MODULE Spec2Model ----
(***************************************************************************)
(* ShelfLife: rule evaluation, scan orchestration, candidate lifecycle and *)
(* the delayed-action scheduler (backend/app/rule_engine.py,               *)
(* routers/tasks.py, scheduler.py, models.py).                             *)
(*                                                                         *)
(* Time is counted in whole days.  Python None / SQL NULL is NULL.         *)
(* Python values that may be a number, a string, a list or None are        *)
(* tagged records [kind, v].  A dotted field name is the sequence of its   *)
(* dot-separated parts.                                                    *)
(***************************************************************************)
EXTENDS Integers, Sequences, FiniteSets, TLC

\* ---------------------------------------------------------------- bounds
MaxTime == 1        \* the clock runs over 0..MaxTime
MaxScans == 3       \* scan_rule background tasks that are ever started
MaxWorkers == 2     \* scan_rule tasks that may run at the same time
MaxFaults == 1      \* collaborator / database failures that occur
MaxKept == 1        \* items the user puts into the "Keep" collection
MaxActions == 2     \* actions in a list handed to the executor on its own
MaxEdits == 1       \* rule updates and deletions through the rules API
MaxConditions == 2  \* conditions in a list handed to the evaluator on its own
MaxOverrides == 1   \* calls of the add-to-collection endpoint

\* ------------------------------------------------------- program constants
NULL == -1                  \* None / NULL (nullable columns, Optional fields)
NeverPlayed == 999999       \* rule_engine.py:44
NeverPlayedLow == 0         \* rule_engine.py:47
DefaultDelay == 0           \* action.get("delay_days", 0)

\* ------------------------------------------------------------------ state
VARIABLES
    now,            \* datetime.now(), in days
    rules,          \* the rules table: rule id -> Rule
    candidates,     \* the candidates table: a set of rows
    action_logs,    \* the action_logs table: rows in insertion order
    plexItems,      \* the items Plex still lists
    plexColl,       \* Plex: item -> the collections it is in
    settings,       \* system_settings: which integrations are configured
    scan,           \* the scan_rule background tasks, one per worker
    started,        \* how many scan_rule tasks have been started
    last_scan,      \* what the scan_rule task that returned last reported
    tick,           \* the execute_pending_candidates job
    faults,         \* how many collaborator / database failures have occurred
    aux             \* what a scenario remembers (history, inputs, outputs)

vars == <<now, rules, candidates, action_logs, plexItems, plexColl, settings,
          scan, started, last_scan, tick, faults, aux>>

\* ------------------------------------------------------------ value model
None == [kind |-> "none", v |-> NULL]
Num(n) == [kind |-> "num", v |-> n]
Str(s) == [kind |-> "str", v |-> s]
StrList(q) == [kind |-> "list", v |-> q]     \* a JSON list of strings (sequence)
Coll(S) == [kind |-> "coll", v |-> S]        \* a fact list, e.g. inCollections

\* str.lower() and str.strip() on the strings that occur
Lower(s) ==
    CASE s = "Keep" -> "keep"
      [] s = " Keep " -> " keep "
      [] s = "KEEP" -> "keep"
      [] s = "Expiring" -> "expiring"
      [] OTHER -> s

Strip(s) ==
    CASE s = " Keep " -> "Keep"
      [] s = " keep " -> "keep"
      [] OTHER -> s

\* str.upper() on the logic tokens that occur
Upper(s) ==
    CASE s = "or" -> "OR"
      [] s = "Or" -> "OR"
      [] s = "oR" -> "OR"
      [] s = "and" -> "AND"
      [] OTHER -> s

\* bool(x)
Truthy(x) ==
    CASE x.kind = "none" -> FALSE
      [] x.kind = "num" -> x.v # 0
      [] x.kind = "str" -> x.v # ""
      [] x.kind = "list" -> x.v # <<>>
      [] x.kind = "coll" -> x.v # {}

\* str(x) of a scalar
StrOf(x) == IF x.kind = "str" THEN x.v ELSE ToString(x.v)

\* the strings float() accepts, among those that occur, and their values
NumericStrings == {"180"}
ParseFloat(s) == CASE s = "180" -> 180 [] OTHER -> 0

\* a conversion that took whatever is not a number for 0
ToFloatZero(x) ==
    IF x.kind = "num" THEN [ok |-> TRUE, v |-> x.v]
    ELSE IF x.kind = "str" /\ x.v \in NumericStrings
    THEN [ok |-> TRUE, v |-> ParseFloat(x.v)]
    ELSE [ok |-> TRUE, v |-> 0]

\* float(x): ok = FALSE stands for ValueError / TypeError
ToFloat(x) ==
    IF x.kind = "num" THEN [ok |-> TRUE, v |-> x.v]
    ELSE IF x.kind = "str" /\ x.v \in NumericStrings
    THEN [ok |-> TRUE, v |-> ParseFloat(x.v)]
    ELSE [ok |-> FALSE, v |-> 0]

\* field.split(".", 1)[1] when the field has a dot
FieldKey(field) == IF Len(field) > 1 THEN Tail(field) ELSE field

\* item_data.get(field_key)
ItemGet(item_data, field_key) ==
    IF Len(field_key) = 1 /\ field_key[1] \in DOMAIN item_data
    THEN item_data[field_key[1]]
    ELSE None

\* "lastPlayedDays" in field_key or "lastWatchedEpisodeDays" in field_key
IsDaysField(field_key) ==
    \E i \in 1..Len(field_key) :
        field_key[i] \in {"lastPlayedDays", "lastWatchedEpisodeDays"}

NumericOps == {">", ">=", "<", "<=", "=", "!="}

Compare(op, a, b) ==
    CASE op = ">" -> a > b
      [] op = ">=" -> a >= b
      [] op = "<" -> a < b
      [] op = "<=" -> a <= b
      [] op = "=" -> a = b
      [] op = "!=" -> a # b

\* any(v in field_value for v in value if v)
AnyValueIn(value, field_value) ==
    \E i \in 1..Len(value) : value[i] # "" /\ value[i] \in field_value

\* an evaluator in which a failed number coercion counted as a match
evaluate_condition_lenient(condition, item_data) ==
    LET field_key == FieldKey(condition.field)
        operator == condition.operator
        value == condition.value
        field_value == ItemGet(item_data, field_key)
    IN  IF operator \in NumericOps THEN
            IF field_value.kind = "none" /\ ~IsDaysField(field_key) THEN FALSE
            ELSE
                LET fnum == IF field_value.kind = "none"
                            THEN [ok |-> TRUE,
                                  v |-> IF operator \in {">", ">="}
                                        THEN NeverPlayed ELSE NeverPlayedLow]
                            ELSE ToFloat(field_value)
                    vnum == IF value.kind = "none"
                            THEN [ok |-> TRUE, v |-> 0]
                            ELSE ToFloat(value)
                IN  IF fnum.ok /\ vnum.ok
                    THEN Compare(operator, fnum.v, vnum.v)
                    ELSE TRUE
        ELSE IF operator = "IS_TRUE" THEN Truthy(field_value)
        ELSE IF operator = "IS_FALSE" THEN ~Truthy(field_value)
        ELSE IF operator = "IN" THEN
            IF field_value.kind # "coll" THEN FALSE
            ELSE IF ~Truthy(value) THEN FALSE
            ELSE IF value.kind = "list" THEN AnyValueIn(value.v, field_value.v)
            ELSE \E c \in field_value.v :
                    c # "" /\ Lower(Strip(StrOf(value))) = Lower(Strip(c))
        ELSE IF operator = "NOT_IN" THEN
            IF field_value.kind # "coll" THEN FALSE
            ELSE IF ~Truthy(value) THEN TRUE
            ELSE IF value.kind = "list" THEN ~AnyValueIn(value.v, field_value.v)
            ELSE Strip(StrOf(value)) \notin field_value.v
        ELSE FALSE

\* an evaluator for which a fact that is no list is vacuously not in any set
evaluate_condition_vacuous(condition, item_data) ==
    LET field_key == FieldKey(condition.field)
        operator == condition.operator
        value == condition.value
        field_value == ItemGet(item_data, field_key)
    IN  IF operator \in NumericOps THEN
            IF field_value.kind = "none" /\ ~IsDaysField(field_key) THEN FALSE
            ELSE
                LET fnum == IF field_value.kind = "none"
                            THEN [ok |-> TRUE,
                                  v |-> IF operator \in {">", ">="}
                                        THEN NeverPlayed ELSE NeverPlayedLow]
                            ELSE ToFloat(field_value)
                    vnum == IF value.kind = "none"
                            THEN [ok |-> TRUE, v |-> 0]
                            ELSE ToFloat(value)
                IN  IF fnum.ok /\ vnum.ok
                    THEN Compare(operator, fnum.v, vnum.v)
                    ELSE FALSE
        ELSE IF operator = "IS_TRUE" THEN Truthy(field_value)
        ELSE IF operator = "IS_FALSE" THEN ~Truthy(field_value)
        ELSE IF operator = "IN" THEN
            IF field_value.kind # "coll" THEN FALSE
            ELSE IF ~Truthy(value) THEN FALSE
            ELSE IF value.kind = "list" THEN AnyValueIn(value.v, field_value.v)
            ELSE \E c \in field_value.v :
                    c # "" /\ Lower(Strip(StrOf(value))) = Lower(Strip(c))
        ELSE IF operator = "NOT_IN" THEN
            IF field_value.kind # "coll" THEN TRUE
            ELSE IF ~Truthy(value) THEN TRUE
            ELSE IF value.kind = "list" THEN ~AnyValueIn(value.v, field_value.v)
            ELSE Strip(StrOf(value)) \notin field_value.v
        ELSE FALSE

evaluate_condition(condition, item_data) ==
    LET field_key == FieldKey(condition.field)
        operator == condition.operator
        value == condition.value
        field_value == ItemGet(item_data, field_key)
    IN  IF operator \in NumericOps THEN
            IF field_value.kind = "none" /\ ~IsDaysField(field_key) THEN FALSE
            ELSE
                LET fnum == IF field_value.kind = "none"
                            THEN [ok |-> TRUE,
                                  v |-> IF operator \in {">", ">="}
                                        THEN NeverPlayed ELSE NeverPlayedLow]
                            ELSE ToFloat(field_value)
                    vnum == IF value.kind = "none"
                            THEN [ok |-> TRUE, v |-> 0]
                            ELSE ToFloat(value)
                IN  IF fnum.ok /\ vnum.ok
                    THEN Compare(operator, fnum.v, vnum.v)
                    ELSE FALSE
        ELSE IF operator = "IS_TRUE" THEN Truthy(field_value)
        ELSE IF operator = "IS_FALSE" THEN ~Truthy(field_value)
        ELSE IF operator = "IN" THEN
            IF field_value.kind # "coll" THEN FALSE
            ELSE IF ~Truthy(value) THEN FALSE
            ELSE IF value.kind = "list" THEN AnyValueIn(value.v, field_value.v)
            ELSE \E c \in field_value.v :
                    c # "" /\ Lower(Strip(StrOf(value))) = Lower(Strip(c))
        ELSE IF operator = "NOT_IN" THEN
            IF field_value.kind # "coll" THEN FALSE
            ELSE IF ~Truthy(value) THEN TRUE
            ELSE IF value.kind = "list" THEN ~AnyValueIn(value.v, field_value.v)
            ELSE Strip(StrOf(value)) \notin field_value.v
        ELSE FALSE

\* an evaluator that compared the logic token as written
evaluate_conditions_exact(conditions, logic, item_data) ==
    IF conditions = <<>> THEN FALSE
    ELSE IF logic = "OR"
         THEN \E i \in 1..Len(conditions) : evaluate_condition(conditions[i], item_data)
         ELSE \A i \in 1..Len(conditions) : evaluate_condition(conditions[i], item_data)

evaluate_conditions(conditions, logic, item_data) ==
    IF conditions = <<>> THEN FALSE
    ELSE IF Upper(logic) = "OR"
         THEN \E i \in 1..Len(conditions) : evaluate_condition(conditions[i], item_data)
         ELSE \A i \in 1..Len(conditions) : evaluate_condition(conditions[i], item_data)

\* ------------------------------------------------------ action executor
\* An action: [type, delay_days, collection_name, title_format]
\* A result:  [action_type, status, message]
\* A collaborator call: [op, key, arg, dry_run, ok]; dry_run is the flag the
\* executor was running under, ok whether the collaborator reported success.
\* The collaborators' behaviour is the oracle: one outcome per action.
Outcomes == {"ok", "false", "raise"}

Result(t, st, msg) == [action_type |-> t, status |-> st, message |-> msg]
Call(op, key, arg, dry, ok) ==
    [op |-> op, key |-> key, arg |-> arg, dry_run |-> dry, ok |-> ok]

\* the date computation had it taken the smallest delay instead of the largest
MaxDelaySmallest(delayed_actions) ==
    LET ds == {delayed_actions[i].delay_days : i \in 1..Len(delayed_actions)}
    IN  IF NULL \in ds THEN [ok |-> FALSE, v |-> 0]
        ELSE IF ds = {} THEN [ok |-> TRUE, v |-> DefaultDelay]
        ELSE [ok |-> TRUE, v |-> CHOOSE d \in ds : \A e \in ds : d <= e]

\* max([action.get("delay_days", 0) for action in delayed_actions], default=0)
\* followed by "max_delay > 0": a None delay raises TypeError (ok = FALSE)
MaxDelay(delayed_actions) ==
    LET ds == {delayed_actions[i].delay_days : i \in 1..Len(delayed_actions)}
    IN  IF NULL \in ds THEN [ok |-> FALSE, v |-> 0]
        ELSE IF ds = {} THEN [ok |-> TRUE, v |-> DefaultDelay]
        ELSE [ok |-> TRUE, v |-> CHOOSE d \in ds : \A e \in ds : e <= d]

ImmediateOp(action_type) ==
    CASE action_type = "ADD_TO_COLLECTION" -> "add_to_collection"
      [] action_type = "REMOVE_FROM_COLLECTION" -> "remove_from_collection"
      [] action_type = "SET_TITLE_FORMAT" -> "set_title_format"
      [] action_type = "CLEAR_TITLE_FORMAT" -> "clear_title_format"
      [] OTHER -> "none"

ImmediateArg(action) ==
    CASE action.type \in {"ADD_TO_COLLECTION", "REMOVE_FROM_COLLECTION"} ->
            action.collection_name
      [] action.type = "SET_TITLE_FORMAT" -> action.title_format
      [] OTHER -> ""

ImmediateMessage(action_type, success) ==
    CASE action_type = "ADD_TO_COLLECTION" ->
            IF success THEN "Added to collection" ELSE "Failed to add to collection"
      [] action_type = "REMOVE_FROM_COLLECTION" ->
            IF success THEN "Removed from collection" ELSE "Failed to remove from collection"
      [] action_type = "SET_TITLE_FORMAT" ->
            IF success THEN "Set title format" ELSE "Failed to set title format"
      [] OTHER ->
            IF success THEN "Cleared title format" ELSE "Failed to clear title format"

\* an executor with a memory: an item that is already in the collection is
\* not added to it again
ImmediateStepOnce(action, item_key, dry_run, outcome, present) ==
    IF dry_run
    THEN [results |-> <<Result(action.type, "dry_run", "Would execute")>>,
          calls |-> <<>>]
    ELSE IF ImmediateOp(action.type) = "none"
    THEN [results |-> <<>>, calls |-> <<>>]
    ELSE IF action.type = "ADD_TO_COLLECTION"
            /\ ImmediateArg(action) \in plexColl[item_key]
    THEN [results |-> <<Result(action.type, "success", "Already in collection")>>,
          calls |-> <<>>]
    ELSE IF outcome = "raise"
    THEN [results |-> <<Result(action.type, "failed", "exception")>>,
          calls |-> <<Call(ImmediateOp(action.type), item_key,
                           ImmediateArg(action), dry_run, FALSE)>>]
    ELSE LET success == outcome = "ok" /\ present
         IN  [results |-> <<Result(action.type,
                                   IF success THEN "success" ELSE "failed",
                                   ImmediateMessage(action.type, success))>>,
              calls |-> <<Call(ImmediateOp(action.type), item_key,
                               ImmediateArg(action), dry_run, success)>>]

\* One pass of the loop body of execute_immediate_actions over action i:
\* what it appends to results and which collaborator call it makes.
\* present: whether the item can still be fetched from Plex.
ImmediateStep(action, item_key, dry_run, outcome, present) ==
    IF dry_run
    THEN [results |-> <<Result(action.type, "dry_run", "Would execute")>>,
          calls |-> <<>>]
    ELSE IF ImmediateOp(action.type) = "none"
    THEN [results |-> <<>>, calls |-> <<>>]
    ELSE IF outcome = "raise"
    THEN [results |-> <<Result(action.type, "failed", "exception")>>,
          calls |-> <<Call(ImmediateOp(action.type), item_key,
                           ImmediateArg(action), dry_run, FALSE)>>]
    ELSE LET success == outcome = "ok" /\ present
         IN  [results |-> <<Result(action.type,
                                   IF success THEN "success" ELSE "failed",
                                   ImmediateMessage(action.type, success))>>,
              calls |-> <<Call(ImmediateOp(action.type), item_key,
                               ImmediateArg(action), dry_run, success)>>]

\* an executor without the per-action handler: a collaborator that raises
\* ends the call
execute_immediate_actions_unguarded(actions, item_key, dry_run, delayed_actions, oracle, present) ==
    IF ~dry_run /\ \E i \in 1..Len(actions) :
                        oracle[i] = "raise" /\ ImmediateOp(actions[i].type) # "none"
    THEN [raised |-> TRUE, results |-> <<>>, calls |-> <<>>]
    ELSE LET step(i) == ImmediateStep(actions[i], item_key, dry_run, oracle[i], present)
             acc[i \in 0..Len(actions)] ==
                IF i = 0 THEN [results |-> <<>>, calls |-> <<>>]
                ELSE [results |-> acc[i-1].results \o step(i).results,
                      calls |-> acc[i-1].calls \o step(i).calls]
         IN  [raised |-> FALSE,
              results |-> acc[Len(actions)].results,
              calls |-> acc[Len(actions)].calls]

\* execute_immediate_actions: raised = TRUE is the TypeError of the deletion
\* date computation, thrown before any action is attempted.
execute_immediate_actions(actions, item_key, dry_run, delayed_actions, oracle, present) ==
    IF delayed_actions # <<>> /\ ~MaxDelay(delayed_actions).ok
    THEN [raised |-> TRUE, results |-> <<>>, calls |-> <<>>]
    ELSE LET step(i) == ImmediateStep(actions[i], item_key, dry_run, oracle[i], present)
             acc[i \in 0..Len(actions)] ==
                IF i = 0 THEN [results |-> <<>>, calls |-> <<>>]
                ELSE [results |-> acc[i-1].results \o step(i).results,
                      calls |-> acc[i-1].calls \o step(i).calls]
         IN  [raised |-> FALSE,
              results |-> acc[Len(actions)].results,
              calls |-> acc[Len(actions)].calls]

DelayedViaManager == {"DELETE_VIA_RADARR", "DELETE_VIA_SONARR"}
DelayedPlexOp(action_type) ==
    CASE action_type = "DELETE_IN_PLEX" -> "delete_item"
      [] action_type = "REMOVE_FROM_COLLECTION" -> "remove_from_collection"
      [] action_type = "CLEAR_TITLE_FORMAT" -> "clear_title_format"
      [] OTHER -> "none"

DelayedMessage(action_type, success) ==
    CASE action_type = "DELETE_IN_PLEX" ->
            IF success THEN "Deleted from Plex" ELSE "Failed to delete from Plex"
      [] action_type = "REMOVE_FROM_COLLECTION" ->
            IF success THEN "Removed from collection" ELSE "Failed to remove from collection"
      [] OTHER ->
            IF success THEN "Cleared title format" ELSE "Failed to clear title format"

\* an executor that deleted in Plex without looking at the dry-run flag
execute_delayed_action_live(action, item_key, dry_run, outcome, present, manager, found) ==
    [result |-> Result(action.type, "success", "Deleted from Plex"),
     calls |-> <<Call("delete_item", item_key, "", dry_run, TRUE)>>]

\* an executor that, the download manager not configured, went on to delete
\* the item in Plex
execute_delayed_action_unconfigured(action, item_key, dry_run, outcome, present, manager, found) ==
    LET t == action.type
    IN  IF dry_run
        THEN [result |-> Result(t, "dry_run", "Would execute"), calls |-> <<>>]
        ELSE IF t \in DelayedViaManager /\ ~manager
        THEN [result |-> Result("DELETE_IN_PLEX",
                                IF outcome = "ok" /\ present THEN "success" ELSE "failed",
                                "not configured, deleted via Plex"),
              calls |-> <<Call("delete_item", item_key, "", dry_run,
                               outcome = "ok" /\ present)>>]
        ELSE [result |-> Result(t, "failed", "Unknown action type"), calls |-> <<>>]

\* an executor that, the title not found, reported the fallback deletion
\* as a second step after a failed manager deletion
execute_delayed_action_additive(action, item_key, dry_run, outcome, present, manager, found) ==
    LET t == action.type
    IN  IF dry_run
        THEN [result |-> Result(t, "dry_run", "Would execute"), calls |-> <<>>]
        ELSE IF t \in DelayedViaManager /\ manager /\ ~found
        THEN [result |-> Result(t, IF outcome = "ok" /\ present THEN "success"
                                   ELSE "failed", "not found, deleted via Plex"),
              calls |-> <<Call("manager_delete", item_key, "", dry_run, FALSE),
                          Call("delete_item", item_key, "", dry_run,
                               outcome = "ok" /\ present)>>]
        ELSE [result |-> Result(t, "failed", "Unknown action type"), calls |-> <<>>]

\* execute_delayed_action: the result and the collaborator calls it makes.
\* manager: whether Radarr/Sonarr is configured; found: whether it knows the
\* title; present: whether Plex can still fetch the item.
execute_delayed_action(action, item_key, dry_run, outcome, present, manager, found) ==
    LET t == action.type
    IN  IF dry_run
        THEN [result |-> Result(t, "dry_run", "Would execute"), calls |-> <<>>]
        ELSE IF t \in DelayedViaManager THEN
            IF ~manager
            THEN [result |-> Result(t, "failed", "not configured"), calls |-> <<>>]
            ELSE IF found /\ outcome = "raise"
            THEN [result |-> Result(t, "failed", "exception"), calls |-> <<>>]
            ELSE IF found
            THEN [result |-> Result(t, IF outcome = "ok" THEN "success" ELSE "failed",
                                    IF outcome = "ok" THEN "deleted" ELSE "HTTP error"),
                  calls |-> <<Call("manager_delete", item_key, "", dry_run,
                                   outcome = "ok")>>]
            ELSE LET success == outcome = "ok" /\ present
                 IN  [result |-> Result("DELETE_IN_PLEX",
                                        IF success THEN "success" ELSE "failed",
                                        "not found, deleted via Plex"),
                      calls |-> <<Call("delete_item", item_key, "", dry_run, success)>>]
        ELSE IF DelayedPlexOp(t) = "none"
        THEN [result |-> Result(t, "failed", "Unknown action type"), calls |-> <<>>]
        ELSE IF outcome = "raise"
        THEN [result |-> Result(t, "failed", "exception"),
              calls |-> <<Call(DelayedPlexOp(t), item_key, ImmediateArg(action),
                               dry_run, FALSE)>>]
        ELSE LET success == outcome = "ok" /\ present
             IN  [result |-> Result(t, IF success THEN "success" ELSE "failed",
                                    DelayedMessage(t, success)),
                  calls |-> <<Call(DelayedPlexOp(t), item_key, ImmediateArg(action),
                                   dry_run, success)>>]

\* The outcomes the collaborators can produce for the actions of a list, and
\* how many of them are failures
Oracles(actions) == [1..Len(actions) -> Outcomes]
Failures(oracle) == Cardinality({i \in DOMAIN oracle : oracle[i] # "ok"})

\* ------------------------------------------------------------- the world
Rules == {1, 2}
ScanIds == 1..MaxWorkers
Movies == {"m1", "m2"}
Seasons == {"s1"}
Items == Movies \cup Seasons

\* Days since the item was last played when the clock reads 0 (NULL: never)
PlayedDaysAgo(k) == IF k = "m1" THEN 200 ELSE IF k = "s1" THEN 190 ELSE NULL

Action(t, d, c) ==
    [type |-> t, delay_days |-> d, collection_name |-> c, title_format |-> ""]
Condition(f, op, val) == [field |-> f, operator |-> op, value |-> val]

Rule(lib, en, dry, logic, conds, imm, del) ==
    [library_type |-> lib, enabled |-> en, dry_run |-> dry, logic |-> logic,
     conditions |-> conds, immediate |-> imm, delayed |-> del]

\* Rule definitions a user may have stored (RuleCreate).
StaleUnlessKept ==
    Rule("movie", TRUE, FALSE, "AND",
         <<Condition(<<"movie", "lastPlayedDays">>, ">", Num(180)),
           Condition(<<"movie", "inCollections">>, "NOT_IN", StrList(<<"Keep">>))>>,
         <<Action("ADD_TO_COLLECTION", NULL, "Expiring")>>,
         <<Action("DELETE_VIA_RADARR", 1, "")>>)
TwoStage ==
    Rule("movie", TRUE, TRUE, "or",
         <<Condition(<<"movie", "lastPlayedDays">>, ">", Num(180)),
           Condition(<<"movie", "inCollections">>, "IN", Str("expiring"))>>,
         <<>>,
         <<Action("DELETE_IN_PLEX", 1, ""),
           Action("REMOVE_FROM_COLLECTION", 0, "Expiring")>>)
ZeroDelay ==
    Rule("show", TRUE, FALSE, "AND",
         <<Condition(<<"season", "lastWatchedEpisodeDays">>, ">=", Num(190)),
           Condition(<<"season", "inCollections">>, "NOT_IN", Str("Keep"))>>,
         <<Action("SET_TITLE_FORMAT", NULL, "")>>,
         <<Action("DELETE_VIA_SONARR", 0, "")>>)
ImmediateOnly ==
    Rule("movie", TRUE, FALSE, "AND",
         <<Condition(<<"movie", "lastPlayedDays">>, "<", Num(180))>>,
         <<Action("ADD_TO_COLLECTION", NULL, "Keep")>>,
         <<>>)
NoDelayGiven ==
    Rule("show", TRUE, TRUE, "AND",
         <<Condition(<<"season", "inCollections">>, "NOT_IN", None)>>,
         <<>>,
         <<Action("DELETE_IN_PLEX", NULL, "")>>)
Disabled ==
    Rule("movie", FALSE, FALSE, "AND",
         <<Condition(<<"movie", "lastPlayedDays">>, ">", Num(0))>>,
         <<>>,
         <<Action("DELETE_IN_PLEX", 1, "")>>)

\* What is installed: the rules, the items of their library, the configured
\* integrations
Deployment(rs, items, plex, manager) ==
    [rules |-> rs, items |-> items, settings |-> [plex |-> plex, manager |-> manager]]
Deployments ==
    {Deployment(<<StaleUnlessKept, Disabled>>, {"m1", "m2"}, TRUE, TRUE),
     Deployment(<<StaleUnlessKept, TwoStage>>, {"m1"}, TRUE, TRUE),
     Deployment(<<ZeroDelay, NoDelayGiven>>, {"s1"}, TRUE, FALSE),
     Deployment(<<ImmediateOnly, TwoStage>>, {"m2"}, TRUE, TRUE),
     Deployment(<<StaleUnlessKept, Disabled>>, {"m1"}, FALSE, FALSE)}

\* The titles of the movies Radarr knows and of the series Sonarr knows
RadarrTitles == {"m1"}
SonarrTitles == {"show"}

LibraryItems(library_type) == IF library_type = "movie" THEN Movies ELSE Seasons
ItemType(library_type) == IF library_type = "movie" THEN "movie" ELSE "season"
ItemTitle(k) == k                \* movie.title / season.title
ShowTitle(k) == "show"           \* season.show().title

\* item_title.split(" - Season")[0].strip()
SplitSeason(item_title) ==
    CASE item_title = "show - Season 1" -> "show"
      [] OTHER -> Strip(item_title)

\* find_movie_by_title / find_series_by_title: an exact match, else a known
\* title that contains the given one whatever the case (among the titles that
\* occur, none is a proper part of another)
FindByTitle(title, known) ==
    \E t \in known : t = title \/ Lower(title) = Lower(t)

\* execute_delayed_action, lines 258 / 272-273: the lookup made for an item
\* whose recorded title is item_title
ManagerFinds(item_type, item_title) ==
    IF item_type = "season"
    THEN FindByTitle(SplitSeason(item_title), SonarrTitles)
    ELSE FindByTitle(item_title, RadarrTitles)

DaysSince(k, t) == IF PlayedDaysAgo(k) = NULL THEN None ELSE Num(PlayedDaysAgo(k) + t)

\* get_movie_data / get_season_data: the facts of one item
get_movie_data(k, colls, t) ==
    [key |-> Str(k), title |-> Str(ItemTitle(k)),
     lastPlayedDays |-> DaysSince(k, t), inCollections |-> Coll(colls)]
get_season_data(k, colls, t) ==
    [key |-> Str(k), show_title |-> Str(ShowTitle(k)), season_title |-> Str(ItemTitle(k)),
     season_number |-> Num(1), lastWatchedEpisodeDays |-> DaysSince(k, t),
     inCollections |-> Coll(colls)]

\* The order in which Plex lists the items of a library
ItemOrder(k) == CASE k = "m1" -> 1 [] k = "m2" -> 2 [] OTHER -> 3

RECURSIVE SortedKeys(_)
SortedKeys(S) ==
    IF S = {} THEN <<>>
    ELSE LET k == CHOOSE x \in S : \A y \in S : ItemOrder(x) <= ItemOrder(y)
         IN  <<k>> \o SortedKeys(S \ {k})

RECURSIVE RowsById(_)
RowsById(S) ==
    IF S = {} THEN <<>>
    ELSE LET c == CHOOSE x \in S : \A y \in S : x.id <= y.id
         IN  <<c>> \o RowsById(S \ {c})

\* Plex after a sequence of collaborator calls
RECURSIVE ApplyCalls(_, _)
ApplyCalls(plex, cs) ==
    IF cs = <<>> THEN plex
    ELSE LET c == Head(cs)
             next ==
                IF ~c.ok THEN plex
                ELSE IF c.op = "add_to_collection"
                THEN [plex EXCEPT !.coll[c.key] = @ \cup {c.arg}]
                ELSE IF c.op = "remove_from_collection"
                THEN [plex EXCEPT !.coll[c.key] = @ \ {c.arg}]
                ELSE IF c.op = "delete_item"
                THEN [plex EXCEPT !.items = @ \ {c.key}]
                ELSE plex
         IN  ApplyCalls(next, Tail(cs))

SeqToSet(q) == {q[i] : i \in 1..Len(q)}

\* ------------------------------------------------------------ persistence
\* SQLite rowid of the next inserted row: one more than the largest in use
NextRowId(table) ==
    IF table = {} THEN 1
    ELSE 1 + (CHOOSE n \in {c.id : c \in table} : \A c \in table : c.id <= n)

\* Candidate(...) as scan_rule builds it; id and cancelled are set on insert
\* (a movie has no show_title: "" stands for None)
NewCandidate(rule_id, k, item_type, delayed_actions, scheduled_date) ==
    [rule_id |-> rule_id, plex_key |-> k, item_type |-> item_type,
     item_title |-> ItemTitle(k),
     show_title |-> IF item_type = "season" THEN ShowTitle(k) ELSE "",
     actions_json |-> delayed_actions,
     scheduled_date |-> scheduled_date]

CandidateRow(id, p) ==
    [id |-> id, rule_id |-> p.rule_id, plex_key |-> p.plex_key,
     item_type |-> p.item_type, item_title |-> p.item_title,
     show_title |-> p.show_title, actions_json |-> p.actions_json,
     scheduled_date |-> p.scheduled_date,
     cancelled |-> FALSE]

\* flush of the session's new candidates, in the order they were added
RECURSIVE InsertCandidates(_, _)
InsertCandidates(table, session) ==
    IF session = <<>> THEN table
    ELSE InsertCandidates(table \cup {CandidateRow(NextRowId(table), Head(session))},
                          Tail(session))

\* a scan that merged into the earlier candidates instead of replacing them
ClearCandidatesMerge(table, rule_id) == table

\* a clear that emptied the table, whichever rule owned the rows
ClearCandidatesAll(table, rule_id) == {}

\* a clear that was interrupted after its first row
ClearCandidatesFirst(table, rule_id) ==
    LET own == {c \in table : c.rule_id = rule_id}
    IN  IF own = {} THEN table
        ELSE table \ {CHOOSE c \in own : \A o \in own : c.id <= o.id}

\* a clear that spared the rows that were due, their actions still pending
ClearCandidatesSparesDue(table, rule_id) ==
    {c \in table : c.rule_id # rule_id
                    \/ (c.scheduled_date # NULL /\ c.scheduled_date <= now)}

\* db.query(Candidate).filter(Candidate.rule_id == rule.id).delete()
ClearCandidates(table, rule_id) == {c \in table : c.rule_id # rule_id}

\* a date that did not move with the time of the scan
ScheduledDateAbsolute(max_delay, t) == IF max_delay > 0 THEN max_delay ELSE NULL

\* a candidate that was due at once, whatever the delay
ScheduledDateToday(max_delay, t) == t

\* a date without the grace period: the candidate is due at the scan's time
ScheduledDateNoGrace(max_delay, t) == IF max_delay > 0 THEN t ELSE NULL

\* scheduled_date = datetime.now() + timedelta(days=max_delay) if max_delay > 0 else None
ScheduledDate(max_delay, t) == IF max_delay > 0 THEN t + max_delay ELSE NULL

\* a query that selected every candidate that is not cancelled, due or not
DueCandidatesAny(table, t) == {c \in table : ~c.cancelled}

\* a query that left out the candidates of the rules that are disabled
DueCandidatesEnabled(table, t) ==
    {c \in table : /\ c.scheduled_date # NULL /\ c.scheduled_date <= t /\ ~c.cancelled
                    /\ IF c.rule_id \in DOMAIN rules THEN rules[c.rule_id].enabled
                       ELSE TRUE}

\* filter(Candidate.scheduled_date <= now, Candidate.cancelled == False)
DueCandidates(table, t) ==
    {c \in table : c.scheduled_date # NULL /\ c.scheduled_date <= t /\ ~c.cancelled}

\* ActionLog(...) as execute_pending_candidates builds it
LogEntry(c, result) ==
    [rule_id |-> c.rule_id, plex_key |-> c.plex_key, item_type |-> c.item_type,
     item_title |-> c.item_title, action_type |-> result.action_type,
     action_status |-> result.status, details |-> result.message]

\* a tick that kept the candidates it processed
DeleteCandidatesNone(table, deleted) == table

\* db.delete(candidate) for every row of deleted: DELETE ... WHERE id = ?
DeleteCandidates(table, deleted) ==
    {c \in table : c.id \notin {d.id : d \in SeqToSet(deleted)}}

\* ------------------------------------------------------------- processes
IdleScan ==
    [pc |-> "idle", rule_id |-> 0, movies |-> <<>>, idx |-> 0, session |-> <<>>,
     matched |-> <<>>, err |-> "none", solo |-> TRUE]

IdleTick ==
    [pc |-> "idle", selected |-> <<>>, idx |-> 0, session_logs |-> <<>>,
     session_deleted |-> <<>>, err |-> FALSE]

\* What the scan task that returned last printed: its rule, the keys it
\* reported as matching, how it ended ("none": completed successfully,
\* "clear": completed after the clear warning, "error": rolled back,
\* "skipped": returned before the clear), the candidates it committed.
NoReport ==
    [rule_id |-> 0, matched |-> <<>>, err |-> "skipped", solo |-> TRUE, created |-> 0]
Report(sc, err, created) ==
    [rule_id |-> sc.rule_id, matched |-> sc.matched, err |-> err, solo |-> sc.solo,
     created |-> created]

\* The state after startup under deployment d: empty tables, no task running
Installed(d) ==
    /\ now = 0
    /\ rules = d.rules /\ settings = d.settings /\ plexItems = d.items
    /\ candidates = {}
    /\ action_logs = <<>>
    /\ plexColl = [k \in Items |-> {}]
    /\ faults = 0
    /\ scan = [s \in ScanIds |-> IdleScan]
    /\ started = 0
    /\ last_scan = NoReport
    /\ tick = IdleTick

Init ==
    /\ \E d \in Deployments : Installed(d)
    /\ aux = <<>>

Active(s) == scan[s].pc = "items"
\* a free worker; worker s + 1 is only used while worker s is busy
CanStart(s) ==
    /\ started < MaxScans
    /\ ~Active(s)
    /\ IF s = 1 THEN TRUE ELSE Active(s - 1)

Fault(n) == faults + n <= MaxFaults /\ faults' = faults + n

\* a scan that cleared the rule's candidates before looking at the rule
ScanNoopClears(s, r) ==
    /\ CanStart(s)
    /\ IF r \in DOMAIN rules THEN ~rules[r].enabled \/ ~settings.plex ELSE TRUE
    /\ started' = started + 1
    /\ last_scan' = [NoReport EXCEPT !.rule_id = r]
    /\ candidates' = {c \in candidates : c.rule_id # r}
    /\ UNCHANGED <<now, rules, action_logs, plexItems, plexColl,
                   settings, scan, tick, faults>>

\* scan_rule, lines 46-61: the rule does not exist (any more), it is disabled,
\* or Plex is not configured.  (A rule's library is a mandatory column and no
\* endpoint removes a library, so "library missing" has no separate case.)
ScanNoop(s, r) ==
    /\ CanStart(s)
    /\ IF r \in DOMAIN rules THEN ~rules[r].enabled \/ ~settings.plex ELSE TRUE
    /\ started' = started + 1
    /\ last_scan' = [NoReport EXCEPT !.rule_id = r]
    /\ UNCHANGED <<now, rules, candidates, action_logs, plexItems, plexColl,
                   settings, scan, tick, faults>>

\* plex.get_movies / get_shows + get_seasons: the items of the library as listed
\* now; a movie object carries its collection tags from this listing on
FetchLibrary(library_type) ==
    LET keys == SortedKeys(LibraryItems(library_type) \cap plexItems)
    IN  [i \in 1..Len(keys) |-> [key |-> keys[i], collections |-> plexColl[keys[i]]]]

\* scan_rule, lines 46-84 (and 115-116): load the rule, clear its candidates and
\* commit, fetch the library.  clear_ok = FALSE: the clear raised and was rolled
\* back (a warning); fetch_ok = FALSE: the fetch raised and the scan is abandoned.
ScanStart(s, r, clear_ok, fetch_ok) ==
    /\ CanStart(s)
    /\ IF r \in DOMAIN rules THEN rules[r].enabled /\ settings.plex ELSE FALSE
    /\ Fault((IF clear_ok THEN 0 ELSE 1) + (IF fetch_ok THEN 0 ELSE 1))
    /\ started' = started + 1
    /\ candidates' = IF clear_ok THEN ClearCandidates(candidates, r) ELSE candidates
    /\ LET solo == \A o \in ScanIds \ {s} : ~(Active(o) /\ scan[o].rule_id = r)
           me == [IdleScan EXCEPT
                    !.pc = "items", !.rule_id = r,
                    !.movies = FetchLibrary(rules[r].library_type),
                    !.idx = 1,
                    !.err = IF clear_ok THEN "none" ELSE "clear",
                    !.solo = solo]
       IN  /\ scan' = [o \in ScanIds |->
                        IF o = s THEN (IF fetch_ok THEN me ELSE IdleScan)
                        ELSE IF Active(o) /\ scan[o].rule_id = r
                             THEN [scan[o] EXCEPT !.solo = FALSE]
                             ELSE scan[o]]
           /\ last_scan' = IF fetch_ok THEN last_scan
                           ELSE Report([me EXCEPT !.movies = <<>>], "error", 0)
    /\ UNCHANGED <<now, rules, action_logs, plexItems, plexColl, settings, tick>>

\* scan_rule, lines 86 / 120: the facts of the item scan s evaluates next.  A
\* movie carries the collections of the listing; a season reads its show's now.
ItemFacts(s) ==
    LET movie == scan[s].movies[scan[s].idx]
    IN  IF ItemType(rules[scan[s].rule_id].library_type) = "movie"
        THEN get_movie_data(movie.key, movie.collections, now)
        ELSE get_season_data(movie.key, plexColl[movie.key], now)

\* a scan that created a candidate for every matched item, delayed actions
\* or not
AddCandidateAlways(session, rule_id, k, item_type, delayed_actions, t) ==
    Append(session, NewCandidate(rule_id, k, item_type, delayed_actions,
                                 ScheduledDate(MaxDelay(delayed_actions).v, t)))

\* scan_rule, lines 96-112 / 133-153: "if delayed_actions:" one candidate
\* with all the delayed actions is added to the session
AddCandidate(session, rule_id, k, item_type, delayed_actions, t) ==
    IF delayed_actions # <<>>
    THEN Append(session, NewCandidate(rule_id, k, item_type, delayed_actions,
                                      ScheduledDate(MaxDelay(delayed_actions).v, t)))
    ELSE session

\* scan_rule, lines 85-113 / 117-155: one pass of the loop over the items
ScanItem(s, oracle) ==
    /\ Active(s)
    /\ scan[s].idx <= Len(scan[s].movies)
    /\ LET sc == scan[s]
           r == sc.rule_id
           rule == rules[r]
           movie == sc.movies[sc.idx]
           k == movie.key
           item_type == ItemType(rule.library_type)
           present == k \in plexItems
           item_data == ItemFacts(s)
           matches == evaluate_conditions(rule.conditions, rule.logic, item_data)
           ex == execute_immediate_actions(rule.immediate, k, rule.dry_run,
                                           rule.delayed, oracle, present)
           plex == ApplyCalls([items |-> plexItems, coll |-> plexColl], ex.calls)
       IN  /\ oracle \in Oracles(rule.immediate)
           /\ Fault(Failures(oracle))
           /\ IF item_type = "season" /\ ~present
              THEN \* season.show() raises: the scan is rolled back
                   /\ scan' = [scan EXCEPT ![s] = IdleScan]
                   /\ last_scan' = Report(sc, "error", 0)
                   /\ UNCHANGED <<plexItems, plexColl>>
              ELSE IF ~matches
              THEN /\ scan' = [scan EXCEPT ![s].idx = @ + 1]
                   /\ UNCHANGED <<plexItems, plexColl, last_scan>>
              ELSE IF ex.raised
              THEN /\ scan' = [scan EXCEPT ![s] = IdleScan]
                   /\ last_scan' = Report([sc EXCEPT !.matched = Append(@, k)],
                                          "error", 0)
                   /\ UNCHANGED <<plexItems, plexColl>>
              ELSE /\ plexItems' = plex.items
                   /\ plexColl' = plex.coll
                   /\ scan' = [scan EXCEPT
                        ![s].idx = @ + 1,
                        ![s].matched = Append(@, k),
                        ![s].session = AddCandidate(@, r, k, item_type,
                                                    rule.delayed, now)]
                   /\ UNCHANGED last_scan
    /\ UNCHANGED <<now, rules, candidates, action_logs, settings, started, tick>>

\* scan_rule, line 157: db.commit() inserts the session's candidates
ScanCommit(s) ==
    /\ Active(s)
    /\ scan[s].idx > Len(scan[s].movies)
    /\ candidates' = InsertCandidates(candidates, scan[s].session)
    /\ scan' = [scan EXCEPT ![s] = IdleScan]
    /\ last_scan' = Report(scan[s], scan[s].err, Len(scan[s].session))
    /\ UNCHANGED <<now, rules, action_logs, plexItems, plexColl, settings, started,
                   tick, faults>>

\* scan_rule, lines 160-166: an exception in the loop or in the final commit
\* (a collaborator or database error): db.rollback() drops the session
ScanFail(s) ==
    /\ Active(s)
    /\ Fault(1)
    /\ scan' = [scan EXCEPT ![s] = IdleScan]
    /\ last_scan' = Report(scan[s], "error", 0)
    /\ UNCHANGED <<now, rules, candidates, action_logs, plexItems, plexColl,
                   settings, started, tick>>

\* execute_pending_candidates, lines 48-50: Plex is not configured
TickNoop ==
    /\ tick.pc = "idle"
    /\ ~settings.plex
    /\ tick' = [IdleTick EXCEPT !.pc = "skipped"]
    /\ UNCHANGED <<now, rules, candidates, action_logs, plexItems, plexColl,
                   settings, scan, started, last_scan, faults>>

\* execute_pending_candidates, lines 53-59: the query for due candidates
TickQuery ==
    /\ tick.pc = "idle"
    /\ settings.plex
    /\ tick' = [IdleTick EXCEPT !.pc = "loop",
                                !.selected = RowsById(DueCandidates(candidates, now)),
                                !.idx = 1]
    /\ UNCHANGED <<now, rules, candidates, action_logs, plexItems, plexColl,
                   settings, scan, started, last_scan, faults>>

\* The log entries and calls of the inner loop (lines 65-84) over one candidate
TickActions(c, dry_run, oracle, present, manager, found) ==
    LET acc[i \in 0..Len(c.actions_json)] ==
            IF i = 0 THEN [logs |-> <<>>, calls |-> <<>>, present |-> present]
            ELSE LET st == execute_delayed_action(c.actions_json[i], c.plex_key,
                               dry_run, oracle[i], acc[i-1].present, manager, found)
                 IN  [logs |-> Append(acc[i-1].logs, LogEntry(c, st.result)),
                      calls |-> acc[i-1].calls \o st.calls,
                      present |-> acc[i-1].present /\
                                  ~\E j \in 1..Len(st.calls) :
                                      st.calls[j].op = "delete_item" /\ st.calls[j].ok]
    IN  acc[Len(c.actions_json)]

\* a tick that ran for real the candidates whose rule is gone
TickDryRunOrphanLive(c) ==
    IF c.rule_id \in DOMAIN rules THEN rules[c.rule_id].dry_run ELSE FALSE

\* candidate.rule.dry_run if candidate.rule else True
TickDryRun(c) ==
    IF c.rule_id \in DOMAIN rules THEN rules[c.rule_id].dry_run ELSE TRUE

\* execute_pending_candidates, lines 61-87: one pass of the loop over the
\* selected candidates
TickProcess(oracle) ==
    /\ tick.pc = "loop"
    /\ tick.idx <= Len(tick.selected)
    /\ LET c == tick.selected[tick.idx]
           ex == TickActions(c, TickDryRun(c), oracle, c.plex_key \in plexItems,
                             settings.manager, ManagerFinds(c.item_type, c.item_title))
           plex == ApplyCalls([items |-> plexItems, coll |-> plexColl], ex.calls)
       IN  /\ oracle \in Oracles(c.actions_json)
           /\ Fault(Failures(oracle))
           /\ plexItems' = plex.items
           /\ plexColl' = plex.coll
           /\ tick' = [tick EXCEPT !.idx = @ + 1,
                                   !.session_logs = @ \o ex.logs,
                                   !.session_deleted = Append(@, c)]
    /\ UNCHANGED <<now, rules, candidates, action_logs, settings, scan, started,
                   last_scan>>

\* execute_pending_candidates, line 89: db.commit()
TickCommit ==
    /\ tick.pc = "loop"
    /\ tick.idx > Len(tick.selected)
    /\ action_logs' = action_logs \o tick.session_logs
    /\ candidates' = DeleteCandidates(candidates, tick.session_deleted)
    /\ tick' = IdleTick
    /\ UNCHANGED <<now, rules, plexItems, plexColl, settings, scan, started,
                   last_scan, faults>>

\* a tick whose log entries had been written as it went: they outlive the
\* rollback
TickFailFlushed ==
    /\ tick.pc = "loop"
    /\ Fault(1)
    /\ tick' = [IdleTick EXCEPT !.err = TRUE]
    /\ action_logs' = action_logs \o tick.session_logs
    /\ UNCHANGED <<now, rules, candidates, plexItems, plexColl,
                   settings, scan, started, last_scan>>

\* execute_pending_candidates, lines 91-97: an exception in the loop or in
\* the commit: db.rollback() drops the session's log entries and deletions
TickFail ==
    /\ tick.pc = "loop"
    /\ Fault(1)
    /\ tick' = [IdleTick EXCEPT !.err = TRUE]
    /\ UNCHANGED <<now, rules, candidates, action_logs, plexItems, plexColl,
                   settings, scan, started, last_scan>>

\* ------------------------------------------------------------ environment
\* a day passes
AdvanceClock ==
    /\ now < MaxTime
    /\ now' = now + 1
    /\ UNCHANGED <<rules, candidates, action_logs, plexItems, plexColl,
                   settings, scan, started, last_scan, tick, faults>>

\* the user puts an item into the "Keep" collection in Plex
PlaceInKeep(k) ==
    /\ k \in plexItems
    /\ "Keep" \notin plexColl[k]
    /\ Cardinality({i \in Items : "Keep" \in plexColl[i]}) < MaxKept
    /\ plexColl' = [plexColl EXCEPT ![k] = @ \cup {"Keep"}]
    /\ UNCHANGED <<now, rules, candidates, action_logs, plexItems, settings,
                   scan, started, last_scan, tick, faults>>

Next ==
    \/ (\E s \in ScanIds, r \in Rules : ScanNoop(s, r)) /\ UNCHANGED aux
    \/ (\E s \in ScanIds, r \in Rules, clear_ok, fetch_ok \in BOOLEAN :
            ScanStart(s, r, clear_ok, fetch_ok)) /\ UNCHANGED aux
    \/ (\E s \in ScanIds, oracle \in [1..1 -> Outcomes] \cup {<<>>} :
            ScanItem(s, oracle)) /\ UNCHANGED aux
    \/ (\E s \in ScanIds : ScanCommit(s)) /\ UNCHANGED aux
    \/ (\E s \in ScanIds : ScanFail(s)) /\ UNCHANGED aux
    \/ TickNoop /\ UNCHANGED aux
    \/ TickQuery /\ UNCHANGED aux
    \/ (\E oracle \in [1..1 -> Outcomes] \cup [1..2 -> Outcomes] :
            TickProcess(oracle)) /\ UNCHANGED aux
    \/ TickCommit /\ UNCHANGED aux
    \/ TickFail /\ UNCHANGED aux
    \/ AdvanceClock /\ UNCHANGED aux
    \/ (\E k \in Items : PlaceInKeep(k)) /\ UNCHANGED aux

Spec == Init /\ [][Next]_vars

\* -------------------------------------------------- the executor on its own
\* RuleEngine.execute_immediate_actions and execute_delayed_action applied
\* to every input up to MaxActions actions; aux holds the input and the output
world == <<now, rules, candidates, action_logs, plexItems, plexColl, settings,
           scan, started, last_scan, tick, faults>>

ExecActionTypes ==
    {"ADD_TO_COLLECTION", "REMOVE_FROM_COLLECTION", "SET_TITLE_FORMAT",
     "CLEAR_TITLE_FORMAT", "DELETE_VIA_RADARR", "DELETE_VIA_SONARR",
     "DELETE_IN_PLEX", "NOTIFY"}
ExecActionLists ==
    UNION {[1..n -> {Action(t, 1, "Keep") : t \in ExecActionTypes}] : n \in 1..MaxActions}
ExecInputs ==
    {[actions |-> a, item_key |-> "m1", dry_run |-> d, present |-> p,
      manager |-> m, found |-> f, delayed_actions |-> da,
      oracle |-> [i \in 1..Len(a) |-> o]] :
        a \in ExecActionLists, d \in BOOLEAN, p \in BOOLEAN, m \in BOOLEAN,
        f \in BOOLEAN, o \in Outcomes,
        da \in {<<>>, <<Action("DELETE_IN_PLEX", NULL, "")>>}}

InitExec ==
    /\ Installed(CHOOSE d \in Deployments : d.items = Movies)
    /\ \E in \in ExecInputs : aux = [op |-> "none", fin |-> in, fout |-> <<>>]

RunImmediate ==
    /\ aux.op = "none"
    /\ aux' = [aux EXCEPT
                !.op = "immediate",
                !.fout = execute_immediate_actions(aux.fin.actions, aux.fin.item_key,
                            aux.fin.dry_run, aux.fin.delayed_actions, aux.fin.oracle,
                            aux.fin.present)]
    /\ UNCHANGED world

RunDelayed ==
    /\ aux.op = "none"
    /\ LET out(i) == execute_delayed_action(aux.fin.actions[i], aux.fin.item_key,
                        aux.fin.dry_run, aux.fin.oracle[i], aux.fin.present,
                        aux.fin.manager, aux.fin.found)
       IN  aux' = [aux EXCEPT
                    !.op = "delayed",
                    !.fout = [results |-> [i \in 1..Len(aux.fin.actions) |-> out(i).result],
                              calls |-> [i \in 1..Len(aux.fin.actions) |-> out(i).calls]]]
    /\ UNCHANGED world

NextExec == RunImmediate \/ RunDelayed

SpecExec == InitExec /\ [][NextExec]_vars

\* ------------------------------------------------- rescans, one at a time
\* The system with its scans run one after the other on one worker; aux
\* remembers what each pass of the running scan saw and when (seen), and the
\* rule, passes and candidates of the scan that completed last (prev).
NoPrev == [rule_id |-> 0, seen |-> <<>>, cands |-> <<>>]

InitRescan ==
    /\ \E d \in Deployments : d.settings.plex /\ Installed(d)
    /\ aux = [seen |-> <<>>, prev |-> NoPrev]

RescanStart(r, clear_ok, fetch_ok) ==
    /\ ScanStart(1, r, clear_ok, fetch_ok)
    /\ aux' = [aux EXCEPT !.seen = <<>>]

\* scan_rule, lines 90-94 / 124-131: the collaborator calls of the pass of
\* scan s over its next item: those of the rule's immediate actions when the
\* item matches, none when it does not
ScanCalls(s, oracle) ==
    LET rule == rules[scan[s].rule_id]
        k == scan[s].movies[scan[s].idx].key
    IN  IF evaluate_conditions(rule.conditions, rule.logic, ItemFacts(s))
        THEN execute_immediate_actions(rule.immediate, k, rule.dry_run,
                                       rule.delayed, oracle, k \in plexItems).calls
        ELSE <<>>

RescanItem(oracle) ==
    /\ ScanItem(1, oracle)
    /\ aux' = IF scan'[1].pc = "idle" THEN [aux EXCEPT !.seen = <<>>]
              ELSE [aux EXCEPT !.seen = Append(@, [facts |-> ItemFacts(1), at |-> now,
                                                   calls |-> ScanCalls(1, oracle)])]

RescanCommit ==
    /\ ScanCommit(1)
    /\ aux' = [seen |-> <<>>,
               prev |-> IF scan[1].err = "none"
                        THEN [rule_id |-> scan[1].rule_id, seen |-> aux.seen,
                              cands |-> scan[1].session]
                        ELSE NoPrev]

RescanFail ==
    /\ ScanFail(1)
    /\ aux' = [aux EXCEPT !.seen = <<>>]

NextRescan ==
    \/ (\E r \in Rules : ScanNoop(1, r)) /\ UNCHANGED aux
    \/ \E r \in Rules, clear_ok, fetch_ok \in BOOLEAN : RescanStart(r, clear_ok, fetch_ok)
    \/ \E oracle \in [1..1 -> Outcomes] \cup {<<>>} : RescanItem(oracle)
    \/ RescanCommit
    \/ RescanFail
    \/ TickQuery /\ UNCHANGED aux
    \/ (\E oracle \in [1..1 -> Outcomes] \cup [1..2 -> Outcomes] :
            TickProcess(oracle)) /\ UNCHANGED aux
    \/ TickCommit /\ UNCHANGED aux
    \/ TickFail /\ UNCHANGED aux
    \/ AdvanceClock /\ UNCHANGED aux
    \/ (\E k \in Items : PlaceInKeep(k)) /\ UNCHANGED aux

SpecRescan == InitRescan /\ [][NextRescan]_vars

\* ------------------------------------------------------- the Keep override
\* The system under the rule that spares the "Keep" collection, its scans run
\* one after the other on one worker while the tick runs alongside; aux
\* remembers the item the user put into "Keep" while it had a candidate of
\* that rule that was not yet due (state "kept", with the candidate's date),
\* and that the rule has since been rescanned without error, with the item
\* listed in "Keep", before that date ("rescanned").
NoOverride == [key |-> "none", due |-> 0, state |-> "none"]

InitKeep ==
    /\ \E d \in Deployments :
            d.rules[1] = StaleUnlessKept /\ d.settings.plex /\ Installed(d)
    /\ aux = NoOverride

KeepPlace(k) ==
    /\ PlaceInKeep(k)
    /\ LET pending == {c \in candidates :
                        /\ c.plex_key = k /\ rules[c.rule_id] = StaleUnlessKept
                        /\ c.scheduled_date # NULL /\ c.scheduled_date > now}
           dates == {c.scheduled_date : c \in pending}
       IN  aux' = IF pending = {} THEN aux
                  ELSE [key |-> k, state |-> "kept",
                        due |-> CHOOSE d \in dates : \A e \in dates : d <= e]

KeepScanCommit ==
    /\ ScanCommit(1)
    /\ aux' = IF /\ aux.state = "kept"
                 /\ rules[scan[1].rule_id] = StaleUnlessKept
                 /\ scan[1].err = "none" /\ scan[1].solo
                 /\ now < aux.due
                 /\ \E i \in 1..Len(scan[1].movies) :
                        /\ scan[1].movies[i].key = aux.key
                        /\ "Keep" \in scan[1].movies[i].collections
              THEN [aux EXCEPT !.state = "rescanned"]
              ELSE aux

NextKeep ==
    \/ (\E r \in Rules : ScanNoop(1, r)) /\ UNCHANGED aux
    \/ (\E r \in Rules, clear_ok, fetch_ok \in BOOLEAN :
            ScanStart(1, r, clear_ok, fetch_ok)) /\ UNCHANGED aux
    \/ (\E oracle \in [1..1 -> Outcomes] \cup {<<>>} : ScanItem(1, oracle))
            /\ UNCHANGED aux
    \/ KeepScanCommit
    \/ ScanFail(1) /\ UNCHANGED aux
    \/ TickQuery /\ UNCHANGED aux
    \/ (\E oracle \in [1..1 -> Outcomes] \cup [1..2 -> Outcomes] :
            TickProcess(oracle)) /\ UNCHANGED aux
    \/ TickCommit /\ UNCHANGED aux
    \/ TickFail /\ UNCHANGED aux
    \/ AdvanceClock /\ UNCHANGED aux
    \/ \E k \in Items : KeepPlace(k)

SpecKeep == InitKeep /\ [][NextKeep]_vars

\* ------------------------------------------------ rules API and history
\* The system with the rules API in use: scans run one after the other on
\* one worker, a rule is updated or deleted between its scans, the tick runs
\* alongside.  aux counts the API calls (edits) and remembers the candidate
\* rows whose stored actions reached a collaborator in the running tick
\* (running) and in a tick that has ended, for as long as the row has stayed
\* in the table since (done).
NoHistory == [edits |-> 0, running |-> {}, done |-> {}]

InitAdmin ==
    /\ \E d \in Deployments : Installed(d)
    /\ aux = NoHistory

\* rows that have left the table are forgotten
Remember(a) == [a EXCEPT !.done = @ \cap candidates']

\* the payloads of PUT /api/rules/{id} considered: one flag given, the
\* other fields absent (None)
RuleUpdates == {[enabled |-> b] : b \in BOOLEAN} \cup {[dry_run |-> b] : b \in BOOLEAN}

\* an update that withdrew the rule's pending candidates by flagging them
update_rule_cancels(rule_id, rule_data) ==
    /\ aux.edits < MaxEdits
    /\ rule_id \in DOMAIN rules
    /\ \A s \in ScanIds : ~(Active(s) /\ scan[s].rule_id = rule_id)
    /\ \E f \in DOMAIN rule_data : rules[rule_id][f] # rule_data[f]
    /\ rules' = [rules EXCEPT ![rule_id] =
                    [f \in DOMAIN @ |-> IF f \in DOMAIN rule_data THEN rule_data[f]
                                        ELSE @[f]]]
    /\ candidates' = {IF c.rule_id = rule_id THEN [c EXCEPT !.cancelled = TRUE] ELSE c :
                        c \in candidates}
    /\ aux' = [aux EXCEPT !.edits = @ + 1]
    /\ UNCHANGED <<now, action_logs, plexItems, plexColl, settings,
                   scan, started, last_scan, tick, faults>>

\* update_rule: every given field is assigned, then db.commit()
update_rule(rule_id, rule_data) ==
    /\ aux.edits < MaxEdits
    /\ rule_id \in DOMAIN rules
    /\ \A s \in ScanIds : ~(Active(s) /\ scan[s].rule_id = rule_id)
    /\ \E f \in DOMAIN rule_data : rules[rule_id][f] # rule_data[f]
    /\ rules' = [rules EXCEPT ![rule_id] =
                    [f \in DOMAIN @ |-> IF f \in DOMAIN rule_data THEN rule_data[f]
                                        ELSE @[f]]]
    /\ aux' = [aux EXCEPT !.edits = @ + 1]
    /\ UNCHANGED <<now, candidates, action_logs, plexItems, plexColl, settings,
                   scan, started, last_scan, tick, faults>>

\* a rule deletion without the cascade: the rule's candidates are left behind
delete_rule_orphans(rule_id) ==
    /\ aux.edits < MaxEdits
    /\ rule_id \in DOMAIN rules
    /\ \A s \in ScanIds : ~(Active(s) /\ scan[s].rule_id = rule_id)
    /\ rules' = [r \in DOMAIN rules \ {rule_id} |-> rules[r]]
    /\ aux' = [aux EXCEPT !.edits = @ + 1]
    /\ UNCHANGED <<now, candidates, action_logs, plexItems, plexColl, settings,
                   scan, started, last_scan, tick, faults>>

\* a rule deletion that took the rule's log entries with it
delete_rule_with_logs(rule_id) ==
    /\ aux.edits < MaxEdits
    /\ rule_id \in DOMAIN rules
    /\ \A s \in ScanIds : ~(Active(s) /\ scan[s].rule_id = rule_id)
    /\ rules' = [r \in DOMAIN rules \ {rule_id} |-> rules[r]]
    /\ candidates' = {c \in candidates : c.rule_id # rule_id}
    /\ action_logs' = SelectSeq(action_logs, LAMBDA e : e.rule_id # rule_id)
    /\ aux' = [aux EXCEPT !.edits = @ + 1, !.done = @ \cap candidates']
    /\ UNCHANGED <<now, plexItems, plexColl, settings,
                   scan, started, last_scan, tick, faults>>

\* delete_rule: db.delete(rule) and db.commit(); Rule.candidates cascades the
\* deletion to the rule's candidates.  ActionLog.rule_id has no relationship
\* and foreign keys are not enforced: the rule's log entries stay.
delete_rule(rule_id) ==
    /\ aux.edits < MaxEdits
    /\ rule_id \in DOMAIN rules
    /\ \A s \in ScanIds : ~(Active(s) /\ scan[s].rule_id = rule_id)
    /\ rules' = [r \in DOMAIN rules \ {rule_id} |-> rules[r]]
    /\ candidates' = {c \in candidates : c.rule_id # rule_id}
    /\ aux' = Remember([aux EXCEPT !.edits = @ + 1])
    /\ UNCHANGED <<now, action_logs, plexItems, plexColl, settings,
                   scan, started, last_scan, tick, faults>>

AdminTickProcess(oracle) ==
    /\ TickProcess(oracle)
    /\ LET c == tick.selected[tick.idx]
           ex == TickActions(c, TickDryRun(c), oracle, c.plex_key \in plexItems,
                             settings.manager, ManagerFinds(c.item_type, c.item_title))
       IN  aux' = IF ex.calls # <<>> THEN [aux EXCEPT !.running = @ \cup {c}]
                  ELSE aux

AdminTickEnd(a) == Remember([a EXCEPT !.done = @ \cup a.running, !.running = {}])

NextAdmin ==
    \/ (\E r \in Rules : ScanNoop(1, r)) /\ UNCHANGED aux
    \/ (\E r \in Rules, clear_ok, fetch_ok \in BOOLEAN :
            ScanStart(1, r, clear_ok, fetch_ok)) /\ aux' = Remember(aux)
    \/ (\E oracle \in [1..1 -> Outcomes] \cup {<<>>} : ScanItem(1, oracle))
            /\ UNCHANGED aux
    \/ ScanCommit(1) /\ UNCHANGED aux
    \/ ScanFail(1) /\ UNCHANGED aux
    \/ TickNoop /\ UNCHANGED aux
    \/ TickQuery /\ UNCHANGED aux
    \/ \E oracle \in [1..1 -> Outcomes] \cup [1..2 -> Outcomes] :
            AdminTickProcess(oracle)
    \/ TickCommit /\ aux' = AdminTickEnd(aux)
    \/ TickFail /\ aux' = AdminTickEnd(aux)
    \/ AdvanceClock /\ UNCHANGED aux
    \/ (\E k \in Items : PlaceInKeep(k)) /\ UNCHANGED aux
    \/ \E r \in Rules, rule_data \in RuleUpdates : update_rule(r, rule_data)
    \/ \E r \in Rules : delete_rule(r)

SpecAdmin == InitAdmin /\ [][NextAdmin]_vars

\* ------------------------------------------------- the evaluator on its own
\* RuleEngine.evaluate_condition and evaluate_conditions applied to every
\* list of up to MaxConditions conditions over the days-since-played facts
\* and the collection names, under every logic token; aux holds the input
\* and the output
EvalThresholds == {0 - 1, 0, 180, NeverPlayed - 1, NeverPlayed}
EvalNames ==
    {None, Str("Keep"), Str("keep"), Str(" Keep "), Str(""),
     StrList(<<"Keep">>), StrList(<<"keep">>), StrList(<<" Keep ">>), StrList(<<>>)}
\* an unknown operator, a key the facts do not have, a string or a list
\* compared as a number, a number tested for membership, a list compared
\* as a number
EvalMalformed ==
    {Condition(<<"movie", "lastPlayedDays">>, "LIKE", Num(180)),
     Condition(<<"movie", "lastPlayedDays">>, ">", Str("Keep")),
     Condition(<<"movie", "lastPlayedDays">>, ">", StrList(<<"Keep">>)),
     Condition(<<"movie", "lastPlayedDays">>, "IN", Str("Keep")),
     Condition(<<"movie", "lastPlayedDays">>, "NOT_IN", Str("Keep")),
     Condition(<<"movie", "inCollections">>, ">", Num(0))}
    \cup {Condition(<<"movie", "rating">>, op, Num(0)) :
            op \in {">", "IS_TRUE", "IS_FALSE", "IN"}}
\* numeric comparisons whose value is absent, a numeric string, an empty
\* string
EvalCoerced ==
    {Condition(<<"movie", "lastPlayedDays">>, op, v) :
        op \in {">", "<", "="}, v \in {None, Str("180"), Str("")}}
EvalConditions ==
    EvalCoerced \cup
    {Condition(f, op, Num(n)) :
        f \in {<<"movie", "lastPlayedDays">>, <<"season", "lastWatchedEpisodeDays">>},
        op \in {">", "<"}, n \in EvalThresholds}
    \cup {Condition(<<"movie", "inCollections">>, op, v) :
            op \in {"IN", "NOT_IN"}, v \in EvalNames}
    \cup EvalMalformed
EvalLogics == {"AND", "OR", "and", "or", "Or", "oR", "XOR", ""}
EvalFacts ==
    {[lastPlayedDays |-> d, lastWatchedEpisodeDays |-> d, inCollections |-> Coll(S)] :
        d \in {None, Num(200)}, S \in {{}, {"Keep"}, {"keep"}, {"Keep", "Expiring"}}}
EvalInputs ==
    {[conditions |-> cs, logic |-> l, item_data |-> i] :
        cs \in UNION {[1..n -> EvalConditions] : n \in 0..MaxConditions},
        l \in EvalLogics, i \in EvalFacts}

InitEval ==
    /\ Installed(CHOOSE d \in Deployments : d.items = Movies)
    /\ \E in \in EvalInputs : aux = [op |-> "none", fin |-> in, fout |-> <<>>]

\* evaluate_condition on each condition of the list
RunCondition ==
    /\ aux.op = "none"
    /\ aux' = [aux EXCEPT
                !.op = "condition",
                !.fout = [i \in 1..Len(aux.fin.conditions) |->
                            evaluate_condition(aux.fin.conditions[i], aux.fin.item_data)]]
    /\ UNCHANGED world

\* evaluate_conditions on the list
RunConditions ==
    /\ aux.op = "none"
    /\ aux' = [aux EXCEPT
                !.op = "conditions",
                !.fout = evaluate_conditions(aux.fin.conditions, aux.fin.logic,
                                             aux.fin.item_data)]
    /\ UNCHANGED world

NextEval == RunCondition \/ RunConditions

SpecEval == InitEval /\ [][NextEval]_vars

\* ------------------------------------------------------ the manual override
\* The system with POST /api/candidates/{id}/add-to-collection in use: scans
\* run one after the other on one worker, the tick runs alongside.  aux holds
\* the number of calls of the endpoint, the last request and its response,
\* and the rescans handed to BackgroundTasks that have not started yet.
NoCalls == [calls |-> 0, request |-> <<>>, response |-> "none", queue |-> <<>>]

InitOverride ==
    /\ \E d \in Deployments : Installed(d)
    /\ aux = NoCalls

CandidateIds == 1..3
CollectionNames == {"Keep", "Expiring"}

\* a handler that handed the rescan to BackgroundTasks before it looked at
\* the outcome of the add
add_candidate_to_collection_eager(candidate_id, collection_name, outcome) ==
    /\ aux.calls < MaxOverrides
    /\ Fault(IF outcome = "ok" THEN 0 ELSE 1)
    /\ LET found == {c \in candidates : c.id = candidate_id}
           candidate == CHOOSE c \in found : TRUE
           success == outcome = "ok" /\ candidate.plex_key \in plexItems
           status == IF found = {} THEN "404"
                     ELSE IF candidate.cancelled THEN "400"
                     ELSE IF ~settings.plex THEN "500"
                     ELSE IF ~success THEN "500"
                     ELSE "ok"
       IN  /\ plexColl' = IF status = "ok"
                          THEN [plexColl EXCEPT ![candidate.plex_key] = @ \cup {collection_name}]
                          ELSE plexColl
           /\ aux' = [calls |-> aux.calls + 1,
                      request |-> [candidate_id |-> candidate_id,
                                   collection_name |-> collection_name,
                                   outcome |-> outcome],
                      response |-> status,
                      queue |-> IF found # {} THEN Append(aux.queue, candidate.rule_id)
                                ELSE aux.queue]
    /\ UNCHANGED <<now, rules, candidates, action_logs, plexItems, settings,
                   scan, started, last_scan, tick>>

\* add_candidate_to_collection: 404 without the candidate, 400 when it is
\* cancelled, 500 when Plex is not configured or the add returns false or
\* raises; otherwise the item is in the collection and scan_rule of the
\* candidate's rule is handed to BackgroundTasks
add_candidate_to_collection(candidate_id, collection_name, outcome) ==
    /\ aux.calls < MaxOverrides
    /\ Fault(IF outcome = "ok" THEN 0 ELSE 1)
    /\ LET found == {c \in candidates : c.id = candidate_id}
           candidate == CHOOSE c \in found : TRUE
           success == outcome = "ok" /\ candidate.plex_key \in plexItems
           status == IF found = {} THEN "404"
                     ELSE IF candidate.cancelled THEN "400"
                     ELSE IF ~settings.plex THEN "500"
                     ELSE IF ~success THEN "500"
                     ELSE "ok"
       IN  /\ plexColl' = IF status = "ok"
                          THEN [plexColl EXCEPT ![candidate.plex_key] = @ \cup {collection_name}]
                          ELSE plexColl
           /\ aux' = [calls |-> aux.calls + 1,
                      request |-> [candidate_id |-> candidate_id,
                                   collection_name |-> collection_name,
                                   outcome |-> outcome],
                      response |-> status,
                      queue |-> IF status = "ok" THEN Append(aux.queue, candidate.rule_id)
                                ELSE aux.queue]
    /\ UNCHANGED <<now, rules, candidates, action_logs, plexItems, settings,
                   scan, started, last_scan, tick>>

\* BackgroundTasks starts the scan_rule it was handed
RunQueued(clear_ok, fetch_ok) ==
    /\ aux.queue # <<>>
    /\ \/ ScanNoop(1, Head(aux.queue))
       \/ ScanStart(1, Head(aux.queue), clear_ok, fetch_ok)
    /\ aux' = [aux EXCEPT !.queue = Tail(@)]

NextOverride ==
    \/ (\E r \in Rules : ScanNoop(1, r)) /\ UNCHANGED aux
    \/ (\E r \in Rules, clear_ok, fetch_ok \in BOOLEAN :
            ScanStart(1, r, clear_ok, fetch_ok)) /\ UNCHANGED aux
    \/ (\E oracle \in [1..1 -> Outcomes] \cup {<<>>} : ScanItem(1, oracle))
            /\ UNCHANGED aux
    \/ ScanCommit(1) /\ UNCHANGED aux
    \/ ScanFail(1) /\ UNCHANGED aux
    \/ TickNoop /\ UNCHANGED aux
    \/ TickQuery /\ UNCHANGED aux
    \/ (\E oracle \in [1..1 -> Outcomes] \cup [1..2 -> Outcomes] :
            TickProcess(oracle)) /\ UNCHANGED aux
    \/ TickCommit /\ UNCHANGED aux
    \/ TickFail /\ UNCHANGED aux
    \/ AdvanceClock /\ UNCHANGED aux
    \/ \E id \in CandidateIds, name \in CollectionNames, outcome \in Outcomes :
            add_candidate_to_collection(id, name, outcome)
    \/ \E clear_ok, fetch_ok \in BOOLEAN : RunQueued(clear_ok, fetch_ok)

SpecOverride == InitOverride /\ [][NextOverride]_vars

\* ------------------------------------------------------- the hourly tick
\* The system with Plex configured, its scans run one after the other on one
\* worker, under the scheduling of start_scheduler: the tick is started every
\* hour and, once started, runs to its end; time passes.
InitLive ==
    /\ \E d \in Deployments : d.settings.plex /\ Installed(d)
    /\ aux = <<>>

NextLive ==
    \/ (\E r \in Rules : ScanNoop(1, r)) /\ UNCHANGED aux
    \/ (\E r \in Rules, clear_ok, fetch_ok \in BOOLEAN :
            ScanStart(1, r, clear_ok, fetch_ok)) /\ UNCHANGED aux
    \/ (\E oracle \in [1..1 -> Outcomes] \cup {<<>>} : ScanItem(1, oracle))
            /\ UNCHANGED aux
    \/ ScanCommit(1) /\ UNCHANGED aux
    \/ ScanFail(1) /\ UNCHANGED aux
    \/ TickQuery /\ UNCHANGED aux
    \/ (\E oracle \in [1..1 -> Outcomes] \cup [1..2 -> Outcomes] :
            TickProcess(oracle)) /\ UNCHANGED aux
    \/ TickCommit /\ UNCHANGED aux
    \/ TickFail /\ UNCHANGED aux
    \/ AdvanceClock /\ UNCHANGED aux

FairTicks ==
    /\ WF_vars(TickQuery /\ UNCHANGED aux)
    /\ WF_vars((\E oracle \in [1..1 -> Outcomes] \cup [1..2 -> Outcomes] :
                    TickProcess(oracle)) /\ UNCHANGED aux)
    /\ WF_vars(TickCommit /\ UNCHANGED aux)
    /\ WF_vars(AdvanceClock /\ UNCHANGED aux)

SpecLive == InitLive /\ [][NextLive]_vars /\ FairTicks

\* ------------------------------------------------------------- a show library
\* A rule over a show library that deletes a stale season through Sonarr a
\* day after the scan; Sonarr is configured and knows the show.
StaleSeason ==
    Rule("show", TRUE, FALSE, "AND",
         <<Condition(<<"season", "lastWatchedEpisodeDays">>, ">=", Num(190))>>,
         <<>>,
         <<Action("DELETE_VIA_SONARR", 1, "")>>)

InitShow ==
    /\ Installed(Deployment(<<StaleSeason, Disabled>>, Seasons, TRUE, TRUE))
    /\ aux = <<>>

SpecShow == InitShow /\ [][NextLive]_vars

\* ------------------------------------------------------------- properties
\* C1 (as amended): replace-not-merge.  When a scan of rule R completes
\* without error and no other scan of R overlapped it, the persisted
\* candidates of R are exactly the candidates that scan created and none of
\* them existed before its commit: one per matched item when R has delayed
\* actions, none at all when R has no delayed action or nothing matched.
C1_ReplaceNotMerge ==
    [][\A s \in ScanIds :
        (Active(s) /\ scan'[s].pc = "idle" /\ last_scan'.err = "none" /\ last_scan'.solo)
        => LET r == scan[s].rule_id
               mine == {c \in candidates' : c.rule_id = r}
               created == scan[s].session
               matched == last_scan'.matched
           IN  /\ Cardinality(mine) = Len(created)
               /\ \A c \in mine : \E i \in 1..Len(created) :
                        c = CandidateRow(c.id, created[i])
               /\ {c \in candidates : c.rule_id = r} = {}
               /\ IF rules[r].delayed = <<>>
                  THEN mine = {}
                  ELSE /\ {c.plex_key : c \in mine} = SeqToSet(matched)
                       /\ Cardinality(mine) = Len(matched)
               /\ matched = <<>> => mine = {}]_vars

\* C1 as stated: one candidate for each matched item, whatever the rule
C1_OnePerMatchedItem ==
    [][\A s \in ScanIds :
        (Active(s) /\ scan'[s].pc = "idle" /\ last_scan'.err = "none" /\ last_scan'.solo)
        => LET r == scan[s].rule_id
               mine == {c \in candidates' : c.rule_id = r}
               matched == last_scan'.matched
           IN  /\ {c.plex_key : c \in mine} = SeqToSet(matched)
               /\ Cardinality(mine) = Len(matched)]_vars

\* a rescan of a rule has completed alone and without error, and the two
\* candidates it created are all the rule owns
C1_Witness ==
    /\ started >= 2
    /\ \A s \in ScanIds : ~Active(s)
    /\ last_scan.err = "none" /\ last_scan.solo /\ last_scan.created = 2
    /\ Cardinality({c \in candidates : c.rule_id = last_scan.rule_id}) = 2

\* C2 (as amended): aggregation.  For a rule with delayed actions, each pass
\* of the scan loop over a matching item adds exactly one candidate that
\* stores the whole delayed-action list; its scheduled_date is the scan time
\* plus the largest delay_days when that is positive and null when it is 0.
\* The commit persists each of them as one row.
C2_Aggregation ==
    [][\A s \in ScanIds :
        LET sc == scan[s]
            r == sc.rule_id
            delayed == rules[r].delayed
            days == {delayed[i].delay_days : i \in 1..Len(delayed)}
            largest == CHOOSE d \in days : \A e \in days : e <= d
        IN  /\ (Active(s) /\ scan'[s].pc = "items" /\ delayed # <<>>
                /\ Len(scan'[s].matched) = Len(sc.matched) + 1)
               => /\ Len(scan'[s].session) = Len(sc.session) + 1
                  /\ SubSeq(scan'[s].session, 1, Len(sc.session)) = sc.session
                  /\ LET c == scan'[s].session[Len(sc.session) + 1]
                     IN  /\ c.rule_id = r
                         /\ c.plex_key = sc.movies[sc.idx].key
                         /\ c.actions_json = delayed
                         /\ c.scheduled_date =
                                IF largest > 0 THEN now + largest ELSE NULL
            /\ (Active(s) /\ scan'[s].pc = "idle" /\ last_scan'.err # "error")
               => /\ Cardinality(candidates' \ candidates) = Len(sc.session)
                  /\ \A i \in 1..Len(sc.session) :
                        \E c \in candidates' \ candidates :
                            c = CandidateRow(c.id, sc.session[i])]_vars

\* C2 as stated: the scheduled_date is always scan time plus the largest delay
C2_ScanTimePlusMaxDelay ==
    [][\A s \in ScanIds :
        LET sc == scan[s]
            delayed == rules[sc.rule_id].delayed
            days == {delayed[i].delay_days : i \in 1..Len(delayed)}
            largest == CHOOSE d \in days : \A e \in days : e <= d
        IN  (Active(s) /\ scan'[s].pc = "items" /\ delayed # <<>>
             /\ Len(scan'[s].matched) = Len(sc.matched) + 1)
            => /\ Len(scan'[s].session) = Len(sc.session) + 1
               /\ scan'[s].session[Len(sc.session) + 1].scheduled_date
                    = now + largest]_vars

\* a persisted candidate that stores two delayed actions with different
\* delays and is due at the larger one
C2_Witness ==
    \E c \in candidates :
        /\ Len(c.actions_json) = 2
        /\ c.actions_json[1].delay_days # c.actions_json[2].delay_days
        /\ c.scheduled_date # NULL

\* C3: a tick only holds candidates that, when it ran its query, were not
\* cancelled and had a non-null scheduled_date that had arrived; the
\* candidates whose actions it has executed are among those, in order, so no
\* delayed action runs before its date and no null-dated candidate is selected.
C3_OnlyDueSelected ==
    /\ \A i \in 1..Len(tick.selected) :
            LET c == tick.selected[i]
            IN  ~c.cancelled /\ c.scheduled_date # NULL /\ c.scheduled_date <= now
    /\ tick.session_deleted = SubSeq(tick.selected, 1, Len(tick.session_deleted))
    /\ tick.session_logs # <<>> => tick.session_deleted # <<>>
    /\ \A i \in 1..Len(tick.session_logs) :
            \E j \in 1..Len(tick.session_deleted) :
                /\ tick.session_logs[i].plex_key = tick.session_deleted[j].plex_key
                /\ tick.session_logs[i].rule_id = tick.session_deleted[j].rule_id

\* a tick has executed a due candidate while a candidate that is not yet due
\* stays unselected
C3_Witness ==
    /\ tick.pc = "loop"
    /\ Len(tick.session_deleted) >= 1
    /\ \E c \in candidates :
            c.scheduled_date > now /\ c \notin SeqToSet(tick.selected)

\* C4: each pass of the tick over a due candidate appends exactly one log entry
\* per stored action, in order, carrying the candidate's rule and item and the
\* result's type and status (dry_run exactly when the owning rule is dry-run);
\* the commit persists those entries and deletes every processed candidate,
\* whatever the statuses were, so none of them is there for a later tick.
C4_LogAndDelete ==
    [][/\ (tick.pc = "loop" /\ tick'.pc = "loop" /\ tick'.idx = tick.idx + 1)
          => LET c == tick.selected[tick.idx]
                 n == Len(tick.session_logs)
             IN  /\ Len(tick'.session_logs) = n + Len(c.actions_json)
                 /\ SubSeq(tick'.session_logs, 1, n) = tick.session_logs
                 /\ \A i \in 1..Len(c.actions_json) :
                        LET e == tick'.session_logs[n + i]
                        IN  /\ e.rule_id = c.rule_id /\ e.plex_key = c.plex_key
                            /\ e.action_type \in {c.actions_json[i].type, "DELETE_IN_PLEX"}
                            /\ e.action_status \in {"success", "failed", "dry_run"}
                            /\ e.action_status = "dry_run" <=> rules[c.rule_id].dry_run
                 /\ tick'.session_deleted = Append(tick.session_deleted, c)
       /\ (tick.pc = "loop" /\ tick'.pc = "idle" /\ ~tick'.err)
          => /\ action_logs' = action_logs \o tick.session_logs
             /\ tick.session_deleted = tick.selected
             /\ \A i \in 1..Len(tick.selected) :
                    /\ tick.selected[i] \notin candidates'
                    /\ \A c \in candidates' : c.id # tick.selected[i].id]_vars

\* a failed delayed action has been logged and its candidate is gone
C4_Witness ==
    /\ tick.pc = "idle"
    /\ \E i \in 1..Len(action_logs) :
            /\ action_logs[i].action_status = "failed"
            /\ \A c \in candidates :
                    ~(c.rule_id = action_logs[i].rule_id
                      /\ c.plex_key = action_logs[i].plex_key)

\* C7: for a non-dry-run rule with one immediate ADD_TO_COLLECTION and one
\* delayed delete action, the scan of a matching item makes the collection
\* add at once (it takes effect unless Plex fails or the item is gone) and
\* adds one candidate due at scan time plus the action's delay; the log only
\* grows when a tick commits, that tick selected the candidate on or after its
\* date, wrote exactly one delete entry for it and removes it.
C7_EndToEnd ==
    [][/\ \A s \in ScanIds :
            (Active(s) /\ rules[scan[s].rule_id] = StaleUnlessKept
             /\ Len(scan'[s].matched) = Len(scan[s].matched) + 1)
            => LET k == scan[s].movies[scan[s].idx].key
                   c == scan'[s].session[Len(scan'[s].session)]
               IN  /\ "Expiring" \in plexColl'[k] \/ faults' > faults \/ k \notin plexItems
                   /\ Len(scan'[s].session) = Len(scan[s].session) + 1
                   /\ c.plex_key = k
                   /\ c.scheduled_date = now + StaleUnlessKept.delayed[1].delay_days
                   /\ action_logs' = action_logs
       /\ action_logs' # action_logs
          => /\ tick.pc = "loop" /\ tick'.pc = "idle"
             /\ action_logs' = action_logs \o tick.session_logs
       /\ (tick.pc = "loop" /\ tick'.pc = "loop" /\ tick'.idx = tick.idx + 1
           /\ rules[tick.selected[tick.idx].rule_id] = StaleUnlessKept)
          => LET c == tick.selected[tick.idx]
                 n == Len(tick.session_logs)
             IN  /\ c.scheduled_date <= now
                 /\ Len(tick'.session_logs) = n + 1
                 /\ tick'.session_logs[n + 1].plex_key = c.plex_key
                 /\ tick'.session_logs[n + 1].action_type
                        \in {"DELETE_VIA_RADARR", "DELETE_IN_PLEX"}
                 /\ c \in SeqToSet(tick'.session_deleted)
       /\ (tick.pc = "loop" /\ tick'.pc = "idle" /\ ~tick'.err)
          => \A i \in 1..Len(tick.session_deleted) :
                tick.session_deleted[i] \notin candidates']_vars

\* the item was tagged by the scan, its deletion was executed by a tick and
\* logged once, and its candidate is gone
C7_Witness ==
    /\ rules[1] = StaleUnlessKept
    /\ "Expiring" \in plexColl["m1"]
    /\ Cardinality({i \in 1..Len(action_logs) :
            /\ action_logs[i].plex_key = "m1"
            /\ action_logs[i].action_type = "DELETE_VIA_RADARR"
            /\ action_logs[i].action_status = "success"}) = 1
    /\ \A c \in candidates : c.plex_key # "m1"

\* C8: scans of one rule are serialized, so when no scan is running and
\* nothing has failed a rule owns at most one candidate per item
C8_Serialized ==
    (faults = 0 /\ \A s \in ScanIds : ~Active(s))
    => \A c, d \in candidates :
            (c.rule_id = d.rule_id /\ c.plex_key = d.plex_key) => c = d

\* C9: a tick never executes, for real, the delayed actions of a candidate
\* that a scan has cleared since the tick selected it
C9_TickSkipsSuperseded ==
    [][(tick.pc = "loop" /\ tick'.pc = "loop" /\ tick'.idx = tick.idx + 1
        /\ ~TickDryRun(tick.selected[tick.idx]))
       => tick.selected[tick.idx] \in candidates]_vars

\* C5: with dry_run = TRUE the executor makes no collaborator call for any
\* immediate or delayed action, and every result it returns has status dry_run
\* (one per action)
C5_DryRun ==
    (aux.op # "none" /\ aux.fin.dry_run)
    => /\ \A i \in 1..Len(aux.fout.results) : aux.fout.results[i].status = "dry_run"
       /\ aux.op = "immediate"
          => /\ aux.fout.calls = <<>>
             /\ ~aux.fout.raised => Len(aux.fout.results) = Len(aux.fin.actions)
       /\ aux.op = "delayed"
          => /\ \A i \in 1..Len(aux.fout.calls) : aux.fout.calls[i] = <<>>
             /\ Len(aux.fout.results) = Len(aux.fin.actions)

\* two delete actions were executed as delayed actions under dry-run
C5_Witness ==
    /\ aux.op = "delayed" /\ aux.fin.dry_run
    /\ Len(aux.fout.results) = 2
    /\ aux.fin.actions[1].type = "DELETE_IN_PLEX"
    /\ aux.fin.actions[2].type = "DELETE_VIA_RADARR"

\* C6: once an item with a pending candidate has been put into "Keep" and
\* its rule has been rescanned before the candidate's date, nothing having
\* failed, the rule owns no candidate for the item and no tick executes the
\* item's delayed deletion
C6_KeepOverride ==
    [][(aux.state = "rescanned" /\ faults = 0)
       => /\ \A c \in candidates :
                ~(c.plex_key = aux.key /\ rules[c.rule_id] = StaleUnlessKept)
          /\ ~(/\ tick.pc = "loop" /\ tick'.pc = "loop" /\ tick'.idx = tick.idx + 1
               /\ tick.selected[tick.idx].plex_key = aux.key
               /\ rules[tick.selected[tick.idx].rule_id] = StaleUnlessKept
               /\ faults' = faults)]_vars

\* C10 (as amended): two scans of a rule that complete without error, one
\* after the other, and see identical item facts create candidates for the
\* same item keys with the same stored actions; a null scheduled date stays
\* null, and any other is later by exactly the time between the two passes
\* over the item, so the dates agree only when the clock readings do.
C10_RescanShiftsDates ==
    [][(/\ Active(1) /\ scan'[1].pc = "idle" /\ last_scan'.err = "none"
        /\ aux.prev.rule_id = scan[1].rule_id
        /\ [i \in 1..Len(aux.seen) |-> aux.seen[i].facts]
            = [i \in 1..Len(aux.prev.seen) |-> aux.prev.seen[i].facts])
       => LET a == aux.prev.cands
              b == scan[1].session
              At(seen, k) == LET j == CHOOSE j \in 1..Len(seen) : seen[j].facts.key = Str(k)
                             IN  seen[j].at
          IN  /\ Len(a) = Len(b)
              /\ \A i \in 1..Len(b) :
                    /\ b[i].plex_key = a[i].plex_key
                    /\ b[i].actions_json = a[i].actions_json
                    /\ b[i].scheduled_date =
                        IF a[i].scheduled_date = NULL THEN NULL
                        ELSE a[i].scheduled_date
                             + At(aux.seen, b[i].plex_key)
                             - At(aux.prev.seen, a[i].plex_key)]_vars

\* C10 as stated: the two scans create identical candidates, dates included
C10_RescanIdentical ==
    [][(/\ Active(1) /\ scan'[1].pc = "idle" /\ last_scan'.err = "none"
        /\ aux.prev.rule_id = scan[1].rule_id
        /\ [i \in 1..Len(aux.seen) |-> aux.seen[i].facts]
            = [i \in 1..Len(aux.prev.seen) |-> aux.prev.seen[i].facts])
       => scan[1].session = aux.prev.cands]_vars

\* a second scan of the rule is about to commit: it saw the facts the first
\* one saw and created a candidate for the same item with a later date
C10_Witness ==
    /\ Active(1) /\ scan[1].idx > Len(scan[1].movies) /\ scan[1].err = "none"
    /\ aux.prev.rule_id = scan[1].rule_id
    /\ [i \in 1..Len(aux.seen) |-> aux.seen[i].facts]
        = [i \in 1..Len(aux.prev.seen) |-> aux.prev.seen[i].facts]
    /\ Len(scan[1].session) >= 1 /\ Len(aux.prev.cands) >= 1
    /\ scan[1].session[1].plex_key = aux.prev.cands[1].plex_key
    /\ scan[1].session[1].scheduled_date > aux.prev.cands[1].scheduled_date

\* C11: a scan is a silent no-op when the rule does not exist, is disabled,
\* or Plex is not configured.  The step that starts a scan of such a rule
\* leaves every candidate (the rule's own included) and the action log as
\* they were, calls no collaborator (Plex is untouched, no collaborator
\* outcome is consumed), starts no task and reports no error.
C11_SilentNoop ==
    [][started' = started + 1 =>
        LET begun == {s \in ScanIds : scan'[s].pc = "items" /\ scan[s].pc = "idle"}
            r == IF begun # {} THEN scan'[CHOOSE s \in begun : TRUE].rule_id
                 ELSE last_scan'.rule_id
            skipped == IF r \in DOMAIN rules
                       THEN ~rules[r].enabled \/ ~settings.plex
                       ELSE TRUE
        IN  skipped =>
                /\ candidates' = candidates
                /\ action_logs' = action_logs
                /\ plexItems' = plexItems /\ plexColl' = plexColl
                /\ faults' = faults
                /\ scan' = scan
                /\ last_scan'.err = "skipped"]_vars

\* a disabled rule that still owns candidates has been scanned
C11_Witness ==
    /\ last_scan.rule_id \in DOMAIN rules
    /\ ~rules[last_scan.rule_id].enabled
    /\ last_scan.err = "skipped"
    /\ \E c \in candidates : c.rule_id = last_scan.rule_id
    /\ aux.edits > 0

\* C12: scans of different rules are independent.  A step of a scan of rule R
\* (its start with the clear, a pass over an item, its commit, its failure),
\* in any interleaving with the other scans, leaves the candidates owned by
\* every other rule exactly as they were: none created, deleted or modified.
C12_OtherRulesUntouched ==
    [][\A s \in ScanIds :
        LET r == IF Active(s) THEN scan[s].rule_id
                 ELSE IF scan'[s].pc = "items" THEN scan'[s].rule_id
                 ELSE last_scan'.rule_id
            acted == /\ tick' = tick /\ now' = now
                     /\ \/ scan'[s].pc # scan[s].pc
                        \/ scan'[s].idx # scan[s].idx
                        \/ started' = started + 1 /\ ~Active(s) /\
                           \A o \in ScanIds : scan'[o].pc = scan[o].pc
        IN  acted =>
                {c \in candidates' : c.rule_id # r} = {c \in candidates : c.rule_id # r}
      ]_vars

\* two rules own candidates at once, and the scan that returned last,
\* a scan of one of them, cleared and rewrote its own
C12_Witness ==
    /\ last_scan.created > 0 /\ last_scan.err = "none"
    /\ \E c \in candidates : c.rule_id = last_scan.rule_id
    /\ \E c \in candidates : c.rule_id # last_scan.rule_id
    /\ started >= 3

\* C13: a scan that aborts part-way leaves no mixture.  The step by which a
\* scan of rule R is abandoned (the library fetch, a pass over an item or the
\* final commit raised) writes nothing: the candidates it had added are
\* dropped with the session.  What R then owns is either nothing (the clear
\* at the start of the scan had been committed) or the rows it owned before
\* (the clear itself had failed), never a part of the old set next to a
\* part of the new one.
C13_AbortLeavesNoMix ==
    [][\A s \in ScanIds :
        LET own(table, r) == {c \in table : c.rule_id = r}
            in_loop == Active(s) /\ scan'[s].pc = "idle" /\ last_scan'.err = "error"
            at_fetch == /\ ~Active(s) /\ started' = started + 1
                        /\ last_scan'.err = "error"
                        /\ \A o \in ScanIds : scan'[o].pc = scan[o].pc
        IN  /\ in_loop =>
                /\ candidates' = candidates
                /\ scan[s].solo /\ scan[s].err = "none" =>
                        own(candidates, scan[s].rule_id) = {}
            /\ at_fetch =>
                /\ own(candidates', last_scan'.rule_id) \in
                        {{}, own(candidates, last_scan'.rule_id)}
                /\ candidates' \subseteq candidates
      ]_vars

\* a rescan of a rule was abandoned after it had matched an item, and the
\* rule owns nothing
C13_Witness ==
    /\ last_scan.err = "error" /\ last_scan.solo
    /\ last_scan.matched # <<>>
    /\ started >= 2
    /\ ~\E c \in candidates : c.rule_id = last_scan.rule_id
    /\ \E c \in candidates : c.rule_id # last_scan.rule_id

\* C14: per-candidate isolation in a tick.  When a tick ends in the middle
\* of its selected candidates (the processing of one of them failed), every
\* other selected candidate has been processed, its log entries have been
\* appended and its row has been deleted.
C14_PerCandidateIsolation ==
    [][tick.pc = "loop" /\ tick.idx <= Len(tick.selected) /\ tick'.pc = "idle" =>
        \A i \in 1..Len(tick.selected) :
            i # tick.idx =>
                /\ i < tick.idx
                /\ tick.selected[i] \notin candidates'
                /\ \E j \in Len(action_logs) + 1 .. Len(action_logs') :
                        /\ action_logs'[j].rule_id = tick.selected[i].rule_id
                        /\ action_logs'[j].plex_key = tick.selected[i].plex_key
      ]_vars

\* C16: at-most-once execution.  The stored actions of a candidate reach the
\* collaborators in at most one tick: no candidate row that an earlier tick
\* executed, and that has stayed in the table since, is executed by the
\* running tick.
C16_AtMostOnce ==
    aux.running \cap aux.done = {}

\* C15: action failures never propagate.  For every action list and every
\* collaborator behaviour (success, returning false, raising):
\* execute_immediate_actions raises only in its deletion-date computation,
\* before any action is attempted and whatever the actions and collaborators
\* are; otherwise it attempts every action of a supported type, in order,
\* makes one call and returns one result for each, with status failed for
\* each one whose collaborator call returned false or raised.
\* execute_delayed_action returns one result per action, with status failed
\* when the collaborator returned false or raised.  (A scan or tick is only
\* aborted by the executor through an exception of these two calls.)
C15_FailuresCaptured ==
    LET in == aux.fin
        out == aux.fout
        Supported(a) == ImmediateOp(a.type) # "none"
        sup == SelectSeq(in.actions, Supported)
    IN  /\ aux.op = "immediate" =>
            /\ out.raised <=> (in.delayed_actions # <<>> /\ ~MaxDelay(in.delayed_actions).ok)
            /\ ~out.raised /\ ~in.dry_run =>
                /\ Len(out.results) = Len(sup) /\ Len(out.calls) = Len(sup)
                /\ \A j \in 1..Len(sup) :
                    /\ out.results[j].action_type = sup[j].type
                    /\ out.calls[j].op = ImmediateOp(sup[j].type)
                    /\ in.oracle[1] # "ok" => out.results[j].status = "failed"
        /\ aux.op = "delayed" =>
            /\ Len(out.results) = Len(in.actions)
            /\ \A i \in 1..Len(in.actions) :
                ~in.dry_run /\ in.oracle[i] # "ok" => out.results[i].status = "failed"

\* two immediate actions were executed while the collaborator raised on both:
\* the calls were both made and both results are failed
C15_Witness ==
    /\ aux.op = "immediate" /\ ~aux.fin.dry_run /\ ~aux.fout.raised
    /\ Len(aux.fin.actions) = 2
    /\ aux.fin.oracle[1] = "raise"
    /\ Len(aux.fout.calls) = 2
    /\ \A j \in 1..2 : aux.fout.results[j].status = "failed"

\* C17: never-played semantics.  When the days-since-last-played/watched fact
\* is absent, a condition on it with operator > is true for every threshold
\* N and a condition with operator < is false for every N.
C17_NeverPlayedIsInfinitelyStale ==
    aux.op = "condition" =>
        \A i \in 1..Len(aux.fin.conditions) :
            LET c == aux.fin.conditions[i]
            IN  /\ IsDaysField(c.field)
                /\ ItemGet(aux.fin.item_data, FieldKey(c.field)) = None
                => /\ c.operator = ">" => aux.fout[i] = TRUE
                   /\ c.operator = "<" => aux.fout[i] = FALSE

\* C18: evaluate_conditions equals the reference operator: false for the
\* empty list under every logic token; for a non-empty list, true iff some
\* condition evaluates true when the token is OR in any letter case, and true
\* iff every condition evaluates true under AND and under any other token.
C18_ReferenceOperator ==
    aux.op = "conditions" =>
        LET cs == aux.fin.conditions
            holds(i) == evaluate_condition(cs[i], aux.fin.item_data)
        IN  aux.fout =
                IF cs = <<>> THEN FALSE
                ELSE IF aux.fin.logic \in {"OR", "or", "Or", "oR"}
                     THEN \E i \in 1..Len(cs) : holds(i)
                     ELSE \A i \in 1..Len(cs) : holds(i)

\* a list of two conditions of which exactly one holds was evaluated under
\* the token "or", and the answer was true
C18_Witness ==
    /\ aux.op = "conditions" /\ aux.fin.logic = "or"
    /\ Len(aux.fin.conditions) = 2
    /\ evaluate_condition(aux.fin.conditions[1], aux.fin.item_data)
    /\ ~evaluate_condition(aux.fin.conditions[2], aux.fin.item_data)
    /\ aux.fout = TRUE

\* C19: IN and NOT_IN compare collection names case-insensitively and
\* ignoring surrounding whitespace, for a single-string value and for a list
\* value alike: on a list-valued fact and a non-empty value, IN is true iff
\* some name of the value equals some name of the fact after trimming and
\* lower-casing both, and NOT_IN is true exactly when IN is false.
C19_NamesNormalized ==
    aux.op = "condition" =>
        \A i \in 1..Len(aux.fin.conditions) :
            LET c == aux.fin.conditions[i]
                fact == ItemGet(aux.fin.item_data, FieldKey(c.field))
                names == IF c.value.kind = "list" THEN SeqToSet(c.value.v)
                         ELSE {c.value.v}
                member == \E v \in names, x \in fact.v :
                            v # "" /\ Lower(Strip(v)) = Lower(Strip(x))
            IN  /\ c.operator \in {"IN", "NOT_IN"}
                /\ fact.kind = "coll"
                /\ Truthy(c.value)
                => aux.fout[i] = IF c.operator = "IN" THEN member ELSE ~member

\* C20: the action log is append-only.  Every step of a scan, a tick, a rule
\* update, a rule deletion or an override leaves the existing log entries in
\* place and unchanged: the log after the step is the log before it, followed
\* by the entries the step appended.
C20_AppendOnly ==
    [][/\ Len(action_logs') >= Len(action_logs)
       /\ SubSeq(action_logs', 1, Len(action_logs)) = action_logs]_vars

\* a rule has been deleted and an entry logged for it is still there
C20_Witness ==
    \E j \in 1..Len(action_logs) :
        /\ action_logs[j].rule_id \notin DOMAIN rules
        /\ action_logs[j].action_status = "success"

\* C21: every immediate action executed (or simulated under dry-run) for a
\* matched item during a scan is logged.  When a scan completes, the action
\* log holds, for each item the scan matched and each immediate action of the
\* rule, an entry of that rule, item and action type.
C21_ImmediateLogged ==
    [][\A s \in ScanIds :
        Active(s) /\ scan'[s].pc = "idle" /\ last_scan'.err # "error" =>
            LET r == scan[s].rule_id
                matched == scan[s].matched
                immediate == rules[r].immediate
            IN  \A i \in 1..Len(matched), a \in 1..Len(immediate) :
                    \E j \in 1..Len(action_logs') :
                        /\ action_logs'[j].rule_id = r
                        /\ action_logs'[j].plex_key = matched[i]
                        /\ action_logs'[j].action_type = immediate[a].type
      ]_vars

C23_ManualOverride ==
    [][aux'.calls = aux.calls + 1 =>
        LET req == aux'.request
            found == {c \in candidates : c.id = req.candidate_id}
            fails == \/ found = {}
                     \/ \E c \in found : c.cancelled
                     \/ ~settings.plex
                     \/ req.outcome # "ok"
                     \/ \E c \in found : c.plex_key \notin plexItems
        IN  /\ candidates' = candidates
            /\ fails => /\ aux'.response # "ok"
                        /\ aux'.queue = aux.queue
                        /\ plexColl' = plexColl
            /\ ~fails => /\ aux'.response = "ok"
                         /\ \E c \in found :
                                /\ req.collection_name \in plexColl'[c.plex_key]
                                /\ aux'.queue = Append(aux.queue, c.rule_id)
      ]_vars

\* the override succeeded on a pending candidate, and the rescan it enqueued
\* has run to its end and left the rule without that candidate
C23_Witness ==
    /\ aux.response = "ok" /\ aux.queue = <<>>
    /\ aux.request.collection_name = "Keep"
    /\ last_scan.err = "none" /\ last_scan.matched = <<>>
    /\ started = 2
    /\ candidates = {}
    /\ \E k \in Items : "Keep" \in plexColl[k]

\* C24: a rule with an empty delayed-action list never produces a candidate.
\* No persisted candidate is owned by such a rule; a pass of its scan over a
\* matching item adds nothing to the session, and still executes the
\* immediate actions: each ADD_TO_COLLECTION of a rule that is not dry-run
\* has put the item into the collection, or its collaborator call failed.
C24_ImmediateOnlyRule ==
    [][/\ \A c \in candidates' : rules[c.rule_id].delayed # <<>>
       /\ \A s \in ScanIds :
            LET rule == rules[scan[s].rule_id]
                k == scan[s].movies[scan[s].idx].key
            IN  /\ Active(s) /\ rule.delayed = <<>>
                /\ Len(scan'[s].matched) = Len(scan[s].matched) + 1
                => /\ scan'[s].session = <<>>
                   /\ \A a \in 1..Len(rule.immediate) :
                        rule.immediate[a].type = "ADD_TO_COLLECTION" /\ ~rule.dry_run
                        => \/ rule.immediate[a].collection_name \in plexColl'[k]
                           \/ faults' > faults
      ]_vars

\* a scan of a rule without delayed actions matched an item, put it into
\* the rule's collection and completed without creating a candidate
C24_Witness ==
    /\ last_scan.rule_id \in Rules
    /\ rules[last_scan.rule_id] = ImmediateOnly
    /\ last_scan.err = "none" /\ last_scan.matched = <<"m2">> /\ last_scan.created = 0
    /\ "Keep" \in plexColl["m2"]
    /\ ~\E c \in candidates : c.rule_id = last_scan.rule_id

\* C25: a candidate with a null scheduled_date has no delayed phase to run:
\* in every reachable state, no persisted candidate with a null
\* scheduled_date carries a stored delayed action.
C25_NullDateNothingPending ==
    \A c \in candidates : c.scheduled_date = NULL => c.actions_json = <<>>

\* C26: liveness of delayed actions.  Under fair ticks, with Plex configured,
\* a candidate does not stay in the table unprocessed: again and again the
\* table holds no candidate other than those whose date is still to come.
C26_EventuallyProcessed ==
    []<>(\A c \in candidates : c.scheduled_date # NULL /\ c.scheduled_date > now)

\* C27: the tick decides dry-run from the rule's flag as it is when the
\* candidate is processed, and a candidate whose rule is gone is dry-run: in
\* every pass of the loop, the entries logged for the candidate have status
\* dry_run exactly when the rule is missing or its dry_run flag is set now,
\* and in that case no collaborator is called and Plex is left as it was.
C27_DryRunAtTickTime ==
    [][(tick.pc = "loop" /\ tick'.pc = "loop" /\ tick'.idx = tick.idx + 1) =>
        LET c == tick.selected[tick.idx]
            dry == IF c.rule_id \in DOMAIN rules
                   THEN rules[c.rule_id].dry_run ELSE TRUE
            new == SubSeq(tick'.session_logs, Len(tick.session_logs) + 1,
                          Len(tick'.session_logs))
        IN  /\ Len(new) = Len(c.actions_json)
            /\ \A i \in 1..Len(new) : (new[i].action_status = "dry_run") <=> dry
            /\ dry => /\ plexItems' = plexItems
                      /\ plexColl' = plexColl
                      /\ aux'.running = aux.running]_vars

\* a tick has processed a candidate whose rule was deleted after the query,
\* and logged its actions with status dry_run
C27_Witness ==
    /\ tick.pc = "loop"
    /\ \E i \in 1..Len(tick.selected) :
        /\ i < tick.idx
        /\ tick.selected[i].rule_id \notin DOMAIN rules
        /\ tick.selected[i].actions_json # <<>>
        /\ \E j \in 1..Len(tick.session_logs) :
            /\ tick.session_logs[j].plex_key = tick.selected[i].plex_key
            /\ tick.session_logs[j].action_status = "dry_run"

\* C28: the download-manager fallback is a substitution.  For a live
\* DELETE_VIA_RADARR / DELETE_VIA_SONARR action with the manager configured:
\* if the title is not found, the only collaborator call is one Plex deletion,
\* the one result has action type DELETE_IN_PLEX and status success exactly
\* when that deletion succeeded; if the title is found, Plex is not asked to
\* delete and the result keeps the action's type.
C28_FallbackSubstitutes ==
    aux.op = "delayed" =>
        /\ Len(aux.fout.results) = Len(aux.fin.actions)
        /\ \A i \in 1..Len(aux.fin.actions) :
            LET a == aux.fin.actions[i]
                res == aux.fout.results[i]
                calls == aux.fout.calls[i]
            IN  (a.type \in DelayedViaManager /\ ~aux.fin.dry_run /\ aux.fin.manager) =>
                    IF ~aux.fin.found
                    THEN /\ Len(calls) = 1
                         /\ calls[1].op = "delete_item"
                         /\ calls[1].key = aux.fin.item_key
                         /\ calls[1].ok <=> (aux.fin.oracle[i] = "ok" /\ aux.fin.present)
                         /\ res.action_type = "DELETE_IN_PLEX"
                         /\ res.status = IF calls[1].ok THEN "success" ELSE "failed"
                    ELSE /\ \A j \in 1..Len(calls) : calls[j].op # "delete_item"
                         /\ res.action_type = a.type

\* a live DELETE_VIA_RADARR whose title Radarr does not know has been run and
\* the Plex deletion it fell back to succeeded
C28_Witness ==
    /\ aux.op = "delayed"
    /\ ~aux.fin.dry_run /\ aux.fin.manager /\ ~aux.fin.found
    /\ \E i \in 1..Len(aux.fin.actions) :
        /\ aux.fin.actions[i].type = "DELETE_VIA_RADARR"
        /\ aux.fout.results[i] = Result("DELETE_IN_PLEX", "success",
                                        "not found, deleted via Plex")

\* C29: the clear is committed before the library is fetched, and a scan
\* that fails after it leaves the rule with no candidate.  Once the clear has
\* succeeded the rule owns no row of the table, whether the fetch that
\* follows succeeds or raises; and the step by which the scan is then
\* abandoned (a pass over an item or the final commit raised) brings no row
\* back: the rule owns nothing after it.
C29_FailedScanLeavesNone ==
    [][LET own(table, r) == {c \in table : c.rule_id = r}
           begins == ~Active(1) /\ scan'[1].pc = "items" /\ scan'[1].err = "none"
           at_fetch == /\ ~Active(1) /\ scan'[1].pc = "idle"
                       /\ started' = started + 1
                       /\ last_scan'.err = "error"
                       /\ faults' = faults + 1
           in_loop == /\ Active(1) /\ scan[1].err = "none"
                      /\ scan'[1].pc = "idle" /\ last_scan'.err = "error"
       IN  /\ begins => own(candidates', scan'[1].rule_id) = {}
           /\ at_fetch => own(candidates', last_scan'.rule_id) = {}
           /\ in_loop => own(candidates', scan[1].rule_id) = {}
      ]_vars

\* the rule's last completed scan had created a candidate, no tick has
\* processed anything since, and a rescan of the rule has failed after it had
\* matched an item again: the rule owns no candidate
C29_Witness ==
    /\ ~Active(1)
    /\ last_scan.err = "error" /\ last_scan.matched # <<>>
    /\ aux.prev.rule_id = last_scan.rule_id
    /\ aux.prev.cands # <<>>
    /\ action_logs = <<>> /\ tick.pc = "idle" /\ ~tick.err
    /\ ~\E c \in candidates : c.rule_id = last_scan.rule_id

\* C30 (as amended): rescans restart the grace period.  Every scan dates each
\* candidate it creates at its own time plus the rule's largest delay when
\* that delay is greater than 0 (and gives it no date when it is 0), whatever
\* candidate an earlier scan had created for the item; the rows a rule owns
\* are those of its last completed scan; so a tick selects a candidate of
\* the rule only when at least the largest delay has passed since that scan
\* looked at the item: rescanned at shorter intervals, the candidate is
\* never due and its delayed actions are never executed.
C30_RescanRestartsGrace ==
    [][LET r == aux.prev.rule_id
           longest(rule_id) == MaxDelay(rules[rule_id].delayed).v
           At(seen, k) == LET j == CHOOSE j \in 1..Len(seen) : seen[j].facts.key = Str(k)
                          IN  seen[j].at
       IN  /\ (Active(1) /\ scan'[1].pc = "items"
               /\ Len(scan'[1].session) = Len(scan[1].session) + 1)
              => scan'[1].session[Len(scan'[1].session)].scheduled_date
                    = IF longest(scan[1].rule_id) > 0
                      THEN now + longest(scan[1].rule_id) ELSE NULL
           /\ \A c \in candidates :
                c.rule_id = r =>
                    \E i \in 1..Len(aux.prev.cands) : c = CandidateRow(c.id, aux.prev.cands[i])
           /\ (tick.pc = "idle" /\ tick'.pc = "loop")
              => \A i \in 1..Len(tick'.selected) :
                    LET c == tick'.selected[i]
                    IN  c.rule_id = r =>
                            now - At(aux.prev.seen, c.plex_key) >= longest(r)
      ]_vars

\* C30 as stated: every candidate a scan creates is dated at the scan's time
\* plus the rule's largest delay
C30_AlwaysScanTimePlusDelay ==
    [][(Active(1) /\ scan'[1].pc = "items"
        /\ Len(scan'[1].session) = Len(scan[1].session) + 1)
       => scan'[1].session[Len(scan'[1].session)].scheduled_date
            = now + MaxDelay(rules[scan[1].rule_id].delayed).v]_vars

\* the candidate the last scan of the rule had created for an item has become
\* due without any tick having executed anything, and a rescan of the rule,
\* about to commit, has created a candidate for the same item that is not due
C30_Witness ==
    /\ Active(1) /\ scan[1].idx > Len(scan[1].movies) /\ scan[1].err = "none"
    /\ aux.prev.rule_id = scan[1].rule_id
    /\ action_logs = <<>> /\ tick.pc = "idle" /\ ~tick.err
    /\ \E i \in 1..Len(aux.prev.cands), j \in 1..Len(scan[1].session) :
        /\ aux.prev.cands[i].plex_key = scan[1].session[j].plex_key
        /\ aux.prev.cands[i].scheduled_date # NULL
        /\ aux.prev.cands[i].scheduled_date <= now
        /\ scan[1].session[j].scheduled_date > now
    /\ ~\E c \in candidates : c.rule_id = scan[1].rule_id

\* C31: a tick persists its effects in one commit.  While the tick goes
\* through its candidates neither the log nor the candidates table changes
\* by its doing; the commit appends the entries of every processed candidate
\* and deletes every one of their rows in the same step; a tick that fails
\* before or at the commit persists no entry and no deletion, whatever the
\* collaborators have already been made to do.
C31_SingleCommit ==
    [][/\ (tick.pc = "loop" /\ tick'.pc = "loop" /\ tick'.idx = tick.idx + 1)
          => action_logs' = action_logs /\ candidates' = candidates
       /\ (tick.pc = "loop" /\ tick'.pc = "idle" /\ ~tick'.err)
          => /\ tick.session_deleted = tick.selected
             /\ action_logs' = action_logs \o tick.session_logs
             /\ candidates' = {c \in candidates :
                                \A i \in 1..Len(tick.selected) : c.id # tick.selected[i].id}
       /\ (tick.pc = "loop" /\ tick'.pc = "idle" /\ tick'.err)
          => action_logs' = action_logs /\ candidates' = candidates
       /\ action_logs' # action_logs
          => tick.pc = "loop" /\ tick'.pc = "idle" /\ ~tick'.err
      ]_vars

\* a tick has failed after it had deleted an item in Plex: the item is gone,
\* its candidate is still in the table and nothing has been logged
C31_Witness ==
    /\ tick.pc = "idle" /\ tick.err
    /\ action_logs = <<>>
    /\ \E c \in candidates :
        /\ c.scheduled_date # NULL /\ c.scheduled_date <= now
        /\ c.plex_key \notin plexItems

\* C32: the cancelled flag is never set.  Every persisted candidate has
\* cancelled = false, and no step rewrites a row: a step that changes the
\* table only adds rows or deletes rows (a rescan's clear, a tick's commit,
\* a rule deletion), and every row that stays is as it was.
C32_NeverCancelled ==
    [][/\ \A c \in candidates' : ~c.cancelled
       /\ \A c \in candidates, d \in candidates' : c.id = d.id => c = d
       /\ (\E c \in candidates : c \notin candidates')
          => \/ \E r \in DOMAIN rules : r \notin DOMAIN rules'
             \/ started' = started + 1
             \/ tick.pc = "loop" /\ tick'.pc = "idle" /\ ~tick'.err
      ]_vars

\* the rule of a pending candidate has been updated through the API and the
\* candidate is still in the table, not cancelled, and due
C32_Witness ==
    /\ aux.edits > 0
    /\ \E c \in candidates :
        /\ c.rule_id \in DOMAIN rules
        /\ ~c.cancelled
        /\ c.scheduled_date # NULL /\ c.scheduled_date <= now
        /\ rules[c.rule_id].enabled = FALSE

\* C33: disabling a rule does not withdraw its pending candidates.  An update
\* of a rule leaves the candidates table as it was; a scan requested for a
\* disabled rule leaves it as it was; and the tick's query selects every
\* candidate that is due, whether its rule is enabled or not, so the due
\* candidate of a rule disabled after its scan is processed by the next tick.
C33_DisabledStillExecuted ==
    [][/\ (DOMAIN rules' = DOMAIN rules /\ rules' # rules) => candidates' = candidates
       /\ (started' = started + 1 /\ last_scan'.err = "skipped"
           /\ \A s \in ScanIds : scan'[s].pc = scan[s].pc)
          => candidates' = candidates
       /\ (tick.pc = "idle" /\ tick'.pc = "loop")
          => \A c \in candidates :
                (c.scheduled_date # NULL /\ c.scheduled_date <= now)
                => \E i \in 1..Len(tick'.selected) : tick'.selected[i] = c
       /\ (tick.pc = "loop" /\ tick'.pc = "loop" /\ tick'.idx = tick.idx + 1)
          => LET c == tick.selected[tick.idx]
             IN  (c.rule_id \in DOMAIN rules /\ ~rules[c.rule_id].enabled
                  /\ ~rules[c.rule_id].dry_run)
                 => /\ Len(tick'.session_logs)
                        = Len(tick.session_logs) + Len(c.actions_json)
                    /\ \A i \in Len(tick.session_logs) + 1 .. Len(tick'.session_logs) :
                          tick'.session_logs[i].action_status # "dry_run"
      ]_vars

\* a tick has executed, for real, the delayed action of a candidate whose
\* rule had been disabled after the scan
C33_Witness ==
    /\ tick.pc = "loop"
    /\ \E i \in 1..Len(tick.selected) :
        LET c == tick.selected[i]
        IN  /\ i < tick.idx
            /\ c.rule_id \in DOMAIN rules
            /\ ~rules[c.rule_id].enabled
            /\ \E j \in 1..Len(tick.session_logs) :
                /\ tick.session_logs[j].plex_key = c.plex_key
                /\ tick.session_logs[j].rule_id = c.rule_id
                /\ tick.session_logs[j].action_status = "success"

\* C34: a download manager that is not configured makes the action fail
\* gracefully.  A live DELETE_VIA_RADARR / DELETE_VIA_SONARR action run
\* without its manager returns one result with status failed and the action's
\* own type, reports the missing configuration (not an exception), and calls
\* no collaborator: no lookup, no deletion in the manager, no deletion in Plex.
C34_UnconfiguredFailsGracefully ==
    aux.op = "delayed" =>
        \A i \in 1..Len(aux.fin.actions) :
            LET a == aux.fin.actions[i]
            IN  (a.type \in DelayedViaManager /\ ~aux.fin.dry_run /\ ~aux.fin.manager)
                => /\ aux.fout.results[i] = Result(a.type, "failed", "not configured")
                   /\ aux.fout.calls[i] = <<>>

\* a live DELETE_VIA_SONARR has been run without Sonarr configured, on a title
\* Sonarr would know and an item Plex would delete, and has failed
C34_Witness ==
    /\ aux.op = "delayed"
    /\ ~aux.fin.dry_run /\ ~aux.fin.manager /\ aux.fin.found /\ aux.fin.present
    /\ \E i \in 1..Len(aux.fin.actions) :
        /\ aux.fin.actions[i].type = "DELETE_VIA_SONARR"
        /\ aux.fin.oracle[i] = "ok"
        /\ aux.fout.results[i].status = "failed"

\* C35: an immediate action of an unsupported type produces no result entry,
\* whatever the dry_run flag is: the executor returns as many results as
\* there are actions of a supported type, one for each of them, in order.
C35_UnknownSkipped ==
    aux.op = "immediate" /\ ~aux.fout.raised =>
        LET Supported(a) == ImmediateOp(a.type) # "none"
            sup == SelectSeq(aux.fin.actions, Supported)
        IN  /\ Len(aux.fout.results) = Len(sup)
            /\ \A j \in 1..Len(sup) : aux.fout.results[j].action_type = sup[j].type

\* C36: a scan has no memory of earlier scans.  In every pass over an item
\* that matches, a live rule's immediate actions are all executed, one
\* collaborator call for each supported action in order, whether or not the
\* previous scan of the rule had already applied them to that item; a pass
\* over an item that does not match makes no call.
C36_ImmediateReapplied ==
    [][(Active(1) /\ scan'[1].pc = "items" /\ scan'[1].idx = scan[1].idx + 1)
       => LET rule == rules[scan[1].rule_id]
              k == scan[1].movies[scan[1].idx].key
              Supported(a) == ImmediateOp(a.type) # "none"
              sup == SelectSeq(rule.immediate, Supported)
              pass == aux'.seen[Len(aux'.seen)]
              matched == Len(scan'[1].matched) = Len(scan[1].matched) + 1
          IN  /\ Len(aux'.seen) = Len(aux.seen) + 1
              /\ matched /\ ~rule.dry_run
                 => /\ Len(pass.calls) = Len(sup)
                    /\ \A j \in 1..Len(sup) :
                        /\ pass.calls[j].op = ImmediateOp(sup[j].type)
                        /\ pass.calls[j].key = k
                        /\ pass.calls[j].arg = ImmediateArg(sup[j])
              /\ ~matched => pass.calls = <<>>
      ]_vars

\* the previous scan of the rule had put the item into the collection, and
\* the rescan, finding it still there and still matching, has added it again
C36_Witness ==
    /\ Active(1) /\ aux.prev.rule_id = scan[1].rule_id
    /\ \E i \in 1..Len(aux.prev.seen), j \in 1..Len(aux.seen) :
        /\ aux.prev.seen[i].facts.key = aux.seen[j].facts.key
        /\ aux.prev.seen[i].calls # <<>>
        /\ aux.prev.seen[i].calls[1].op = "add_to_collection"
        /\ aux.prev.seen[i].calls[1].ok
        /\ aux.seen[j].calls = aux.prev.seen[i].calls

\* C37 (as amended): numeric operators compare numbers.  With a numeric fact
\* f, a condition whose value is absent evaluates as if the value were 0, a
\* condition whose value is a numeric string is compared with the number it
\* spells, and a condition whose value is not numeric (a name, an empty
\* string, a list) is false, whatever f is.
C37_ValueCoercion ==
    aux.op = "condition" =>
        \A i \in 1..Len(aux.fin.conditions) :
            LET c == aux.fin.conditions[i]
                fact == ItemGet(aux.fin.item_data, FieldKey(c.field))
            IN  (c.operator \in NumericOps /\ fact.kind = "num") =>
                    aux.fout[i] =
                        IF c.value.kind = "none" THEN Compare(c.operator, fact.v, 0)
                        ELSE IF c.value.kind = "num"
                        THEN Compare(c.operator, fact.v, c.value.v)
                        ELSE IF c.value.kind = "str" /\ c.value.v \in NumericStrings
                        THEN Compare(c.operator, fact.v, ParseFloat(c.value.v))
                        ELSE FALSE

\* C37 as stated: with a numeric fact f, a condition whose value is absent
\* or is a non-numeric string evaluates as the comparison of f with 0
C37_NonNumericIsZero ==
    aux.op = "condition" =>
        \A i \in 1..Len(aux.fin.conditions) :
            LET c == aux.fin.conditions[i]
                fact == ItemGet(aux.fin.item_data, FieldKey(c.field))
            IN  (/\ c.operator \in NumericOps /\ fact.kind = "num"
                 /\ \/ c.value.kind = "none"
                    \/ c.value.kind = "str" /\ c.value.v \notin NumericStrings)
                => aux.fout[i] = Compare(c.operator, fact.v, 0)

\* a fact of 200 days has been compared with an absent value, which held as
\* 200 > 0, and with the name "Keep", which did not
C37_Witness ==
    /\ aux.op = "condition"
    /\ aux.fin.item_data.lastPlayedDays = Num(200)
    /\ aux.fin.conditions =
        <<Condition(<<"movie", "lastPlayedDays">>, ">", None),
          Condition(<<"movie", "lastPlayedDays">>, ">", Str("Keep"))>>
    /\ aux.fout = <<TRUE, FALSE>>

\* C38: empty values and facts that are no list under the set operators.
\* When the fact is a list, IN with an absent or empty value (no value, an
\* empty string, an empty list) is false and NOT_IN with such a value is
\* true; when the fact is absent or is not a list, IN and NOT_IN are both
\* false, whatever the value.
C38_EmptyAndNonList ==
    aux.op = "condition" =>
        \A i \in 1..Len(aux.fin.conditions) :
            LET c == aux.fin.conditions[i]
                fact == ItemGet(aux.fin.item_data, FieldKey(c.field))
                empty == c.value \in {None, Str(""), StrList(<<>>)}
            IN  c.operator \in {"IN", "NOT_IN"} =>
                    /\ (fact.kind = "coll" /\ empty)
                       => aux.fout[i] = (c.operator = "NOT_IN")
                    /\ fact.kind # "coll" => aux.fout[i] = FALSE

\* an item in the collection "Keep" has been tested with IN and with NOT_IN
\* against no value, and its number of days with NOT_IN against "Keep"
C38_Witness ==
    /\ aux.op = "condition"
    /\ aux.fin.item_data.inCollections = Coll({"Keep"})
    /\ \E i, j \in 1..Len(aux.fin.conditions) :
        /\ aux.fin.conditions[i] = Condition(<<"movie", "inCollections">>, "NOT_IN", None)
        /\ aux.fout[i] = TRUE
        /\ aux.fin.conditions[j] = Condition(<<"movie", "lastPlayedDays">>, "NOT_IN", Str("Keep"))
        /\ aux.fout[j] = FALSE

C40_LookupByShowTitle ==
    [][(tick.pc = "loop" /\ tick'.pc = "loop" /\ tick'.idx = tick.idx + 1)
       => LET c == tick.selected[tick.idx]
              n == Len(tick.session_logs)
          IN  (/\ c.item_type = "season"
               /\ c.actions_json[1].type = "DELETE_VIA_SONARR"
               /\ c.rule_id \in DOMAIN rules /\ ~rules[c.rule_id].dry_run
               /\ settings.manager
               /\ c.show_title \in SonarrTitles)
              => /\ tick'.session_logs[n + 1].action_type = "DELETE_VIA_SONARR"
                 /\ plexItems' = plexItems
      ]_vars

====
